---- MODULE Spec2Model ----
(***************************************************************************)
(* The publish/delete transaction engine of nuch (src/src/publish.rs) over *)
(* the staging primitives of src/src/fs.rs and the version-control runner  *)
(* of src/src/git.rs.                                                      *)
(*                                                                         *)
(* A file name is a sequence of characters; an extension such as "png" is  *)
(* kept as one element, which is exact for the alphabet used here (no      *)
(* other character of the alphabet occurs in an extension).  A path is a   *)
(* pair <<directory, name>>.  The file system maps each existing path to   *)
(* its content; the content of a file present at the start is its own      *)
(* path, so every original file has a content of its own and a copy        *)
(* carries the content of its source.                                      *)
(*                                                                         *)
(* fs::copy is all-or-nothing: it either writes the whole destination or   *)
(* fails and leaves the file system as it was.  Every I/O call that can    *)
(* fail in the code (copy, remove, read_dir, create_dir_all of a missing   *)
(* directory, the prompt, the git commands) fails nondeterministically.    *)
(***************************************************************************)
EXTENDS Integers, Sequences, FiniteSets, TLC

VARIABLES
    op,           \* "publish" | "delete": the entry point this run calls
    selected,     \* the selected file's path (argument `selected`)
    cfg,          \* the image directories that are configured (Some) in AppPaths
    dirs,         \* the directories that exist
    fs,           \* the file system: existing path -> content
    pc,           \* the position of the call
    created,      \* publish: `created`; delete: `backup_files` (working-area copies)
    images,       \* the matching assets still to be copied (rest of the `for` loop)
    to_delete,    \* delete: `to_delete`
    backups,      \* delete: `backups`, a sequence of <<orig, backup>>
    idx,          \* delete: index in to_delete of the next removal
    outcome,      \* "none" while running, then "success" | "aborted" | "error"
    err,          \* the error returned (NoErr unless outcome = "error")
    hist,         \* what the call has done so far (observation only)
    args,         \* a direct call of the asset matcher: its arguments
    result,       \* a direct call of the asset matcher: what it returned
    repo          \* the git repository the runner works on

vars == <<op, selected, cfg, dirs, fs, pc, created, images, to_delete, backups,
          idx, outcome, err, hist, args, result, repo>>

----------------------------------------------------------------------------
(* Bounds of the model *)

\* At most this many files are in each image directory at the start.
MaxAssets == 2

----------------------------------------------------------------------------
(* Names, paths *)

ContentNames == { <<"a", ".", "md">>, <<"a", "x", ".", "md">> }

AssetNames == { <<"a", ".", "png">>, <<"A", "x", ".", "JPG">>,
                <<"x", ".", "png">>, <<"a", ".", "txt">> }

NoPath == <<"none", <<>>>>

\* str::to_lowercase on one character
LowerChar(c) ==
    CASE c = "A" -> "a"
      [] c = "X" -> "x"
      [] c = "JPG" -> "jpg"
      [] c = "PNG" -> "png"
      [] OTHER -> c

ToLowercase(name) == [i \in 1..Len(name) |-> LowerChar(name[i])]

StartsWith(name, prefix) ==
    /\ Len(prefix) <= Len(name)
    /\ \A i \in 1..Len(prefix) : name[i] = prefix[i]

Exts == {"png", "jpg", "jpeg", "gif", "webp", "svg"}

EndsWithExt(name) == Len(name) > 0 /\ name[Len(name)] \in Exts

\* Path::file_stem: the name up to its last ".", the whole name when it has no
\* "." or only a leading one.
FileStem(name) ==
    LET dots == {i \in 1..Len(name) : name[i] = "."}
        last == CHOOSE i \in dots : \A j \in dots : j <= i
    IN  IF dots = {} \/ dots = {1} THEN name ELSE SubSeq(name, 1, last - 1)

Dir(p) == p[1]
FileName(p) == p[2]
Join(d, name) == <<d, name>>

Exists(f, p) == p \in DOMAIN f

FilesIn(f, d) == {p \in DOMAIN f : Dir(p) = d}

\* What a directory entry that is itself a directory holds in place of content.
SubDir == <<"dir", <<>>>>

\* Path::is_file
IsFile(f, p) == Exists(f, p) /\ f[p] # SubDir

\* fs::copy(src, dst): dst holds the content of src afterwards, whether or not it
\* existed before.
FsCopy(f, src, dst) ==
    [p \in DOMAIN f \cup {dst} |-> IF p = dst THEN f[src] ELSE f[p]]

\* fs::remove_file(p)
FsRemove(f, p) == [q \in DOMAIN f \ {p} |-> f[q]]

RECURSIVE FsRemoveAll(_, _)
FsRemoveAll(f, ps) ==
    IF ps = {} THEN f
    ELSE LET p == CHOOSE q \in ps : TRUE
         IN  FsRemoveAll(FsRemove(f, p), ps \ {p})

Range(s) == {s[i] : i \in 1..Len(s)}

\* The orders in which read_dir can list the set S.
Orders(S) ==
    {s \in [1..Cardinality(S) -> S] : \A i, j \in 1..Cardinality(S) : s[i] = s[j] => i = j}

----------------------------------------------------------------------------
(* fs.rs *)

\* The entry name compared as it is, not lower-cased.
MatchingImagesForStem_CaseSensitive(stem_lower, d) ==
    IF d \notin dirs THEN {}
    ELSE {p \in FilesIn(fs, d) :
            /\ IsFile(fs, p)
            /\ StartsWith(FileName(p), stem_lower)
            /\ EndsWithExt(FileName(p))}

\* Every entry taken, directories included.
MatchingImagesForStem_AnyEntry(stem_lower, d) ==
    IF d \notin dirs THEN {}
    ELSE {p \in FilesIn(fs, d) :
            /\ StartsWith(ToLowercase(FileName(p)), stem_lower)
            /\ EndsWithExt(ToLowercase(FileName(p)))}

\* matching_images_for_stem without its read_dir failure: the regular files of
\* dir whose lower-cased name starts with stem_lower and ends with an extension.
MatchingImagesForStem(stem_lower, d) ==
    IF d \notin dirs THEN {}
    ELSE {p \in FilesIn(fs, d) :
            /\ IsFile(fs, p)
            /\ StartsWith(ToLowercase(FileName(p)), stem_lower)
            /\ EndsWithExt(ToLowercase(FileName(p)))}

\* A rollback that returns at the first removal that fails.
RECURSIVE RollbackRemoveFiles_StopAtFirstFailure(_, _, _)
RollbackRemoveFiles_StopAtFirstFailure(f, paths, F) ==
    IF paths = <<>> THEN f
    ELSE LET p == Head(paths)
         IN  IF ~Exists(f, p) THEN RollbackRemoveFiles_StopAtFirstFailure(f, Tail(paths), F)
             ELSE IF p \in F THEN f
             ELSE RollbackRemoveFiles_StopAtFirstFailure(FsRemove(f, p), Tail(paths), F)

\* rollback_remove_files(created) when the removals of the paths in F fail:
\* every path that exists is tried; the result is the new file system.
RollbackRemoveFiles(f, paths, F) ==
    FsRemoveAll(f, {p \in Range(paths) : Exists(f, p) /\ p \notin F})

\* The failures rollback_remove_files returns: one per existing path not removed.
RollbackFailures(f, paths, F) == {p \in Range(paths) : Exists(f, p) /\ p \in F}

\* copy_file_to, fs.rs:50  dst.exists()
CopyTargetExists(dst) == Exists(fs, dst)

\* A backup of the first file only.
BackupFilesToTemp_FirstOnly(f, files) ==
    IF files = <<>> \/ ~Exists(f, files[1]) THEN [fs |-> f, pairs |-> <<>>]
    ELSE [fs |-> FsCopy(f, files[1], Join("tmp", FileName(files[1]))),
          pairs |-> <<<<files[1], Join("tmp", FileName(files[1]))>>>>]

\* fs.rs:98-106  the loop of backup_files_to_temp over files when every copy
\* succeeds: each existing original is copied to tmp/<its file name>, a copy
\* already there being overwritten; the result is the new file system and the
\* pairs <<orig, backup>>.
RECURSIVE BackupFilesToTempIn(_, _, _)
BackupFilesToTempIn(f, files, tmp) ==
    IF files = <<>> THEN [fs |-> f, pairs |-> <<>>]
    ELSE LET n    == Len(files)
             r    == BackupFilesToTempIn(f, SubSeq(files, 1, n - 1), tmp)
             orig == files[n]
             dest == Join(tmp, FileName(orig))
         IN  IF ~Exists(r.fs, orig) THEN r
             ELSE [fs |-> FsCopy(r.fs, orig, dest),
                   pairs |-> Append(r.pairs, <<orig, dest>>)]

\* backup_files_to_temp(files) of a Delete call, whose temp directory the
\* engine's runs name "tmp".
BackupFilesToTemp(f, files) == BackupFilesToTempIn(f, files, "tmp")

\* A restore of the first record only.
RestoreFromBackups_FirstOnly(f, pairs) ==
    IF pairs = <<>> \/ ~Exists(f, pairs[1][2]) THEN f
    ELSE FsCopy(f, pairs[1][2], pairs[1][1])

\* restore_from_backups(pairs) when every copy succeeds: each backup that still
\* exists is copied over its original.
RECURSIVE RestoreFromBackups(_, _)
RestoreFromBackups(f, pairs) ==
    IF pairs = <<>> THEN f
    ELSE LET n == Len(pairs)
             r == RestoreFromBackups(f, SubSeq(pairs, 1, n - 1))
         IN  IF Exists(r, pairs[n][2]) THEN FsCopy(r, pairs[n][2], pairs[n][1]) ELSE r

\* A cleanup that removes nothing.
CleanupBackupDir_Noop(f, d, F) == f

\* cleanup_backup_dir(dir) when the removals of the files in F fail: the file
\* system afterwards (errors are ignored).
CleanupBackupDir(f, d, F) == FsRemoveAll(f, FilesIn(f, d) \ F)

----------------------------------------------------------------------------
(* Errors and outcomes *)

\* An error value: which message it is, the path the message displays, the
\* underlying error text it embeds, and the rollback failures it lists.
MkErr(m, p, c, F) == [msg |-> m, path |-> p, cause |-> c, failures |-> F]

NoErr == MkErr("none", NoPath, "none", {})

\* What the version-control runner returns: Ok, or the error of the step that
\* failed (a command that could not be spawned, or one of the five steps).
\* The engine only reads Ok / Err(text) from run_git_steps (publish.rs:97, 221);
\* what the runner does to the repository is not part of this state.
GitOutcomes == {"ok", "spawn_failed", "not_a_repo", "pre_staged",
                "add_failed", "commit_failed", "push_failed"}

\* Confirm::prompt(): Ok(true), Ok(false), or Err (cancelled / interrupted / no tty).
PromptResults == {"yes", "no", "cancel"}

----------------------------------------------------------------------------
(* Initial states *)

ImageDirs == {"wimg", "pimg"}

\* No direct call of the matcher is made in a run of Publish or Delete.
NoArgs == [stems |-> <<>>, dir |-> "none"]

NoResult == <<>>

\* The engine only reads Ok / Err from the runner: no repository in its runs.
NoRepo == [is_repo |-> FALSE]

AssetSets == {S \in SUBSET AssetNames : Cardinality(S) <= MaxAssets}

InitFs(R, P, W, I) ==
    LET ps == {Join("ready", n) : n \in R} \cup {Join("published", n) : n \in P}
              \cup {Join("wimg", n) : n \in W} \cup {Join("pimg", n) : n \in I}
    IN  [p \in ps |-> p]

InitHist(f, d) ==
    [fs0 |-> f, dirs0 |-> d, answer |-> "none", vcCalls |-> 0, vcResult |-> "none",
     rmFailed |-> {}, removed |-> {}, exit |-> "none",
     wbAnswer |-> "none", rmFailAt |-> 0, restoreFailed |-> FALSE,
     cleanupFailed |-> {}, restored |-> 0, rmdirFailed |-> FALSE,
     tried |-> {}, retry |-> FALSE]

\* The file operations of one kind on the paths of P.
Att(kind, P) == {<<kind, p>> : p \in P}

\* The history h with the attempts S entered: retry is set when one of them
\* had been made before in this call.
Tried(h, S) == [h EXCEPT !.tried = @ \cup S, !.retry = @ \/ (S \cap h.tried # {})]

Init ==
    /\ op \in {"publish", "delete"}
    /\ cfg \in SUBSET ImageDirs
    /\ \E D \in SUBSET cfg : dirs = {"ready", "published"} \cup D
    /\ \E R \in SUBSET ContentNames, P \in SUBSET ContentNames,
          W \in AssetSets, I \in AssetSets :
          /\ "wimg" \notin dirs => W = {}
          /\ "pimg" \notin dirs => I = {}
          /\ fs = InitFs(R, P, W, I)
    /\ selected \in FilesIn(fs, IF op = "publish" THEN "ready" ELSE "published")
    /\ pc = IF op = "publish" THEN "p_start" ELSE "d_start"
    /\ created = <<>>
    /\ images = <<>>
    /\ to_delete = <<>>
    /\ backups = <<>>
    /\ idx = 0
    /\ outcome = "none"
    /\ err = NoErr
    /\ hist = InitHist(fs, dirs)
    /\ args = NoArgs
    /\ result = NoResult
    /\ repo = NoRepo

\* return: the call ends with outcome o and error e, having left by exit path x.
Finish(o, e, x) ==
    /\ pc' = "done"
    /\ outcome' = o
    /\ err' = e
    /\ hist' = [hist EXCEPT !.exit = x]

\* return after the attempts S were made, the last of them having failed.
FinishTried(o, e, x, S) ==
    /\ pc' = "done"
    /\ outcome' = o
    /\ err' = e
    /\ hist' = Tried([hist EXCEPT !.exit = x], S)

\* return after the attempts S and then rollback_remove_files(created), which
\* tries the removal of every path of `created` that exists; those of F failed.
FinishRolledBackAfter(o, e, x, F, S) ==
    /\ pc' = "done"
    /\ outcome' = o
    /\ err' = e
    /\ hist' = Tried(Tried([hist EXCEPT !.exit = x,
                                       !.rmFailed = RollbackFailures(fs, created, F)], S),
                     Att("remove", {p \in Range(created) : Exists(fs, p)}))

\* return after rollback_remove_files(created) in which the removals of F failed.
FinishRolledBack(o, e, x, F) == FinishRolledBackAfter(o, e, x, F, {})

----------------------------------------------------------------------------
(* publish_selected *)

\* The stem handed to the matcher as it is.
StemToLowercase_AsIs(stem) == stem

\* publish.rs:40, 124  stem.to_lowercase(), the matcher's stem_lower argument
StemToLowercase(stem) == ToLowercase(stem)

StemLower == StemToLowercase(FileStem(FileName(selected)))

DestMd == Join("published", FileName(selected))

\* The destination check left out.
DestMdExists_Unchecked == FALSE

\* publish.rs:18  dest_md.exists()
DestMdExists == Exists(fs, DestMd)

\* The asset's destination check left out.
DestImgExists_Unchecked(dest_img) == FALSE

\* publish.rs:44  dest_img.exists()
DestImgExists(dest_img) == Exists(fs, dest_img)

\* publish.rs:34  both image directories are configured
ImagesConfigured == {"wimg", "pimg"} \subseteq cfg

\* A rollback that also removes the source the markdown was copied from.
PublishRollbackPaths_WithSource == <<selected>> \o created

\* A rollback that forgets the markdown and removes only the copied assets.
PublishRollbackPaths_AssetsOnly == Tail(created)

\* The paths a rollback of publish removes: `created`.
PublishRollbackPaths == created

\* lines 10-31: the destination check, then the copy of the markdown.
PubStart ==
    /\ pc = "p_start"
    /\ IF DestMdExists
       THEN /\ Finish("error", MkErr("dest_md_exists", DestMd, "none", {}), "dest_exists")
            /\ UNCHANGED <<fs, created>>
       ELSE \E ok \in BOOLEAN :
            IF ok
            THEN /\ fs' = FsCopy(fs, selected, DestMd)
                 /\ created' = <<DestMd>>
                 /\ pc' = "p_images"
                 /\ hist' = Tried(hist, Att("copy", {selected}))
                 /\ UNCHANGED <<outcome, err>>
            ELSE /\ FinishTried("error", MkErr("copy_md_failed", DestMd, "io", {}),
                                "copy_md_failed", Att("copy", {selected}))
                 /\ UNCHANGED <<fs, created>>
    /\ UNCHANGED <<repo, args, result, op, selected, cfg, dirs, images, to_delete, backups, idx>>

\* lines 33-41: the stem, the listing of the matching assets, create_dir_all.
PubListImages ==
    /\ pc = "p_images"
    /\ IF ~ImagesConfigured
       THEN /\ pc' = "p_confirm"
            /\ UNCHANGED <<dirs, images, outcome, err, hist>>
       ELSE \/ /\ "wimg" \in dirs          \* read_dir(src_images) fails
               /\ Finish("error", MkErr("io", NoPath, "io", {}), "list_failed")
               /\ UNCHANGED <<dirs, images>>
            \/ /\ "pimg" \notin dirs       \* create_dir_all(dst_images) fails
               /\ Finish("error", MkErr("io", NoPath, "io", {}), "mkdir_failed")
               /\ UNCHANGED <<dirs, images>>
            \/ /\ images' \in Orders(MatchingImagesForStem(StemLower, "wimg"))
               /\ dirs' = dirs \cup {"pimg"}
               /\ pc' = "p_copy"
               /\ UNCHANGED <<outcome, err, hist>>
    /\ UNCHANGED <<repo, args, result, op, selected, cfg, fs, created, to_delete, backups, idx>>

\* lines 42-71: one iteration of the copy loop, or its end.
PubCopyImage ==
    /\ pc = "p_copy"
    /\ IF images = <<>>
       THEN /\ pc' = "p_confirm"
            /\ UNCHANGED <<fs, created, images, outcome, err, hist>>
       ELSE LET p == Head(images)
                dest_img == Join("pimg", FileName(p))
                live == {q \in Range(PublishRollbackPaths) : Exists(fs, q)}
            IN  IF DestImgExists(dest_img)
                THEN \E F \in SUBSET live :
                     /\ fs' = RollbackRemoveFiles(fs, PublishRollbackPaths, F)
                     /\ FinishRolledBack("error",
                            IF RollbackFailures(fs, PublishRollbackPaths, F) = {}
                            THEN MkErr("image_exists", dest_img, "none", {})
                            ELSE MkErr("image_exists_rollback_failures", NoPath, "none",
                                       RollbackFailures(fs, PublishRollbackPaths, F)),
                            "img_conflict", F)
                     /\ UNCHANGED <<created, images>>
                ELSE \/ /\ fs' = FsCopy(fs, p, dest_img)
                        /\ created' = Append(created, dest_img)
                        /\ images' = Tail(images)
                        /\ hist' = Tried(hist, Att("copy", {p}))
                        /\ UNCHANGED <<pc, outcome, err>>
                     \/ \E F \in SUBSET live :
                        /\ fs' = RollbackRemoveFiles(fs, PublishRollbackPaths, F)
                        /\ FinishRolledBackAfter("error",
                               IF RollbackFailures(fs, PublishRollbackPaths, F) = {}
                               THEN MkErr("copy_image_failed", p, "io", {})
                               ELSE MkErr("copy_image_failed_rollback_failures", p, "none",
                                          RollbackFailures(fs, PublishRollbackPaths, F)),
                               "img_copy_failed", F, Att("copy", {p}))
                        /\ UNCHANGED <<created, images>>
    /\ UNCHANGED <<repo, args, result, op, selected, cfg, dirs, to_delete, backups, idx>>

\* Any answer that is not an error goes on.
Proceeds_UnlessCancelled(ans) == ans # "cancel"

\* publish.rs:80-83  the answer that lets the call go on to the git steps
Proceeds(ans) == ans = "yes"

\* lines 74-94: the summary and the confirmation.
PubConfirm ==
    /\ pc = "p_confirm"
    /\ \E ans \in PromptResults :
       LET live == {q \in Range(PublishRollbackPaths) : Exists(fs, q)}
           h == [hist EXCEPT !.answer = ans]
       IN  IF ans = "cancel"
           THEN /\ pc' = "done"
                /\ outcome' = "error"
                /\ err' = MkErr("prompt", NoPath, "prompt", {})
                /\ hist' = [h EXCEPT !.exit = "prompt_failed"]
                /\ UNCHANGED fs
           ELSE IF Proceeds(ans)
           THEN /\ pc' = "p_git"
                /\ hist' = h
                /\ UNCHANGED <<fs, outcome, err>>
           ELSE \E F \in SUBSET live :
                LET fl == RollbackFailures(fs, PublishRollbackPaths, F)
                IN  /\ fs' = RollbackRemoveFiles(fs, PublishRollbackPaths, F)
                    /\ pc' = "done"
                    /\ outcome' = IF fl = {} THEN "aborted" ELSE "error"
                    /\ err' = IF fl = {} THEN NoErr
                              ELSE MkErr("aborted_rollback_failures", NoPath, "none", fl)
                    /\ hist' = Tried([h EXCEPT !.exit = "declined", !.rmFailed = fl],
                                      Att("remove", live))
    /\ UNCHANGED <<repo, args, result, op, selected, cfg, dirs, created, images, to_delete, backups, idx>>

\* The runner's error with the rollback failures in its place.
GitError_DropsCause(g, fl) ==
    IF fl = {} THEN MkErr("git", NoPath, g, {})
    ELSE MkErr("git_rollback_failures", NoPath, "none", fl)

\* publish.rs:99-107: Err(e), or "{e}; rollback failures: {failures}"
GitError(g, fl) ==
    IF fl = {} THEN MkErr("git", NoPath, g, {})
    ELSE MkErr("git_rollback_failures", NoPath, g, fl)

\* lines 96-111: the git steps, the rollback when they fail.
PubGit ==
    /\ pc = "p_git"
    /\ \E g \in GitOutcomes :
       LET live == {q \in Range(PublishRollbackPaths) : Exists(fs, q)}
           h == [hist EXCEPT !.vcCalls = @ + 1, !.vcResult = g]
       IN  IF g = "ok"
           THEN /\ pc' = "done"
                /\ outcome' = "success"
                /\ err' = NoErr
                /\ hist' = [h EXCEPT !.exit = "ok"]
                /\ UNCHANGED fs
           ELSE \E F \in SUBSET live :
                LET fl == RollbackFailures(fs, PublishRollbackPaths, F)
                IN  /\ fs' = RollbackRemoveFiles(fs, PublishRollbackPaths, F)
                    /\ pc' = "done"
                    /\ outcome' = "error"
                    /\ err' = GitError(g, fl)
                    /\ hist' = Tried([h EXCEPT !.exit = "git_failed", !.rmFailed = fl],
                                      Att("remove", live))
    /\ UNCHANGED <<repo, args, result, op, selected, cfg, dirs, created, images, to_delete, backups, idx>>

----------------------------------------------------------------------------
(* delete_selected *)

WorkingMd == Join("ready", FileName(selected))

\* publish.rs:131  working_md.exists()
WorkingMdExists == Exists(fs, WorkingMd)

\* publish.rs:148  dest.exists()
BackupTargetExists(dest) == Exists(fs, dest)

\* A rollback that leaves the markdown copy in the working area.
RemoveBackupFiles_ImagesOnly(f, paths, F) ==
    FsRemoveAll(f, {p \in Range(paths) : Exists(f, p) /\ p \notin F /\ Dir(p) = "wimg"})

\* publish.rs:149-151, 158-160: `let _ = fs::remove_file(f)` for each of
\* backup_files, when the removals of F fail.
RemoveBackupFiles(f, paths, F) == FsRemoveAll(f, {p \in Range(paths) : Exists(f, p) /\ p \notin F})

\* lines 114-138: the working-copy check, the prompt, the copy of the selected file.
DelStart ==
    /\ pc = "d_start"
    /\ IF WorkingMdExists
       THEN /\ pc' = "d_gather"
            /\ UNCHANGED <<fs, created, outcome, err, hist>>
       ELSE \E ans \in PromptResults :
            LET h == [hist EXCEPT !.wbAnswer = ans]
            IN  CASE ans = "cancel" ->
                     /\ pc' = "done"
                     /\ outcome' = "error"
                     /\ err' = MkErr("prompt", NoPath, "prompt", {})
                     /\ hist' = [h EXCEPT !.exit = "wb_prompt_failed"]
                     /\ UNCHANGED <<fs, created>>
                  [] ans = "no" ->
                     /\ pc' = "d_gather"
                     /\ hist' = h
                     /\ UNCHANGED <<fs, created, outcome, err>>
                  [] ans = "yes" ->
                     IF CopyTargetExists(WorkingMd)
                     THEN /\ pc' = "done"
                          /\ outcome' = "error"
                          /\ err' = MkErr("destination_exists", WorkingMd, "none", {})
                          /\ hist' = [h EXCEPT !.exit = "wb_md_exists"]
                          /\ UNCHANGED <<fs, created>>
                     ELSE \/ /\ fs' = FsCopy(fs, selected, WorkingMd)
                             /\ created' = <<WorkingMd>>
                             /\ pc' = "d_wb_list"
                             /\ hist' = Tried(h, Att("copy", {selected}))
                             /\ UNCHANGED <<outcome, err>>
                          \/ /\ pc' = "done"
                             /\ outcome' = "error"
                             /\ err' = MkErr("copy_failed", WorkingMd, "io", {})
                             /\ hist' = Tried([h EXCEPT !.exit = "wb_md_copy_failed"],
                                               Att("copy", {selected}))
                             /\ UNCHANGED <<fs, created>>
    /\ UNCHANGED <<repo, args, result, op, selected, cfg, dirs, images, to_delete, backups, idx>>

\* lines 140-145: the listing of the collection's matching assets for the
\* working-area backup, create_dir_all(work_imgs) when there are some.
DelWbList ==
    /\ pc = "d_wb_list"
    /\ IF ~ImagesConfigured
       THEN /\ pc' = "d_gather"
            /\ UNCHANGED <<dirs, images, outcome, err, hist>>
       ELSE \/ /\ "pimg" \in dirs          \* read_dir(pub_imgs) fails
               /\ Finish("error", MkErr("io", NoPath, "io", {}), "wb_list_failed")
               /\ UNCHANGED <<dirs, images>>
            \/ /\ MatchingImagesForStem(StemLower, "pimg") # {}
               /\ "wimg" \notin dirs       \* create_dir_all(work_imgs) fails
               /\ Finish("error", MkErr("io", NoPath, "io", {}), "wb_mkdir_failed")
               /\ UNCHANGED <<dirs, images>>
            \/ /\ images' \in Orders(MatchingImagesForStem(StemLower, "pimg"))
               /\ dirs' = IF images' # <<>> THEN dirs \cup {"wimg"} ELSE dirs
               /\ pc' = IF images' # <<>> THEN "d_wb_copy" ELSE "d_gather"
               /\ UNCHANGED <<outcome, err, hist>>
    /\ UNCHANGED <<repo, args, result, op, selected, cfg, fs, created, to_delete, backups, idx>>

\* lines 146-169: one iteration of the working-area asset copy loop, or its end.
DelWbCopy ==
    /\ pc = "d_wb_copy"
    /\ IF images = <<>>
       THEN /\ pc' = "d_gather"
            /\ UNCHANGED <<fs, created, images, outcome, err, hist>>
       ELSE LET img  == Head(images)
                dest == Join("wimg", FileName(img))
                live == {q \in Range(created) : Exists(fs, q)}
            IN  IF BackupTargetExists(dest)
                THEN \E F \in SUBSET live :
                     /\ fs' = RemoveBackupFiles(fs, created, F)
                     /\ FinishRolledBack("error",
                            MkErr("backup_target_exists", dest, "none", {}),
                            "wb_img_conflict", F)
                     /\ UNCHANGED <<created, images>>
                ELSE \/ /\ fs' = FsCopy(fs, img, dest)
                        /\ created' = Append(created, dest)
                        /\ images' = Tail(images)
                        /\ hist' = Tried(hist, Att("copy", {img}))
                        /\ UNCHANGED <<pc, outcome, err>>
                     \/ \E F \in SUBSET live :
                        /\ fs' = RemoveBackupFiles(fs, created, F)
                        /\ FinishRolledBackAfter("error",
                               MkErr("copy_image_failed", img, "io", {}),
                               "wb_img_copy_failed", F, Att("copy", {img}))
                        /\ UNCHANGED <<created, images>>
    /\ UNCHANGED <<repo, args, result, op, selected, cfg, dirs, to_delete, backups, idx>>

\* A deletion set of the selected file alone.
DeletionSet_SelectedOnly(imgs) == <<selected>>

\* publish.rs:182-189  to_delete: the selected file, then the matching assets
DeletionSet(imgs) == <<selected>> \o imgs

\* lines 181-191: the deletion set, then backup_files_to_temp.  The temp
\* directory is created; the copy of the (k+1)-th file may fail, which leaves
\* the directory and the first k backups behind.
DelGather ==
    /\ pc = "d_gather"
    /\ \/ /\ "pimg" \in cfg /\ "pimg" \in dirs      \* read_dir(pub_imgs) fails
          /\ Finish("error", MkErr("io", NoPath, "io", {}), "gather_failed")
          /\ UNCHANGED <<dirs, fs, to_delete, backups>>
       \/ /\ "tmp" \notin dirs                       \* create_dir_all(tmp) fails
          /\ Finish("error", MkErr("io", NoPath, "io", {}), "tmp_mkdir_failed")
          /\ UNCHANGED <<dirs, fs, to_delete, backups>>
       \/ \E imgs \in Orders(IF "pimg" \in cfg
                             THEN MatchingImagesForStem(StemLower, "pimg") ELSE {}) :
          LET td == DeletionSet(imgs)
          IN  \E k \in 0..Len(td) :
              LET r == BackupFilesToTemp(fs, SubSeq(td, 1, k))
              IN  /\ dirs' = dirs \cup {"tmp"}
                  /\ fs' = r.fs
                  /\ IF k = Len(td)
                     THEN /\ to_delete' = td
                          /\ backups' = r.pairs
                          /\ pc' = "d_confirm"
                          /\ hist' = Tried(hist, Att("backup", Range(td) \cap DOMAIN fs))
                          /\ UNCHANGED <<outcome, err>>
                     ELSE /\ Exists(fs, td[k + 1])
                          /\ FinishTried("error", MkErr("backup_failed", td[k + 1], "io", {}),
                                 "backup_failed",
                                 Att("backup", Range(SubSeq(td, 1, k + 1)) \cap DOMAIN fs))
                          /\ UNCHANGED <<to_delete, backups>>
    /\ UNCHANGED <<repo, args, result, op, selected, cfg, created, images, idx>>

\* An abort that removes the temp backups.
CleanupAndAbort_RemovesBackups(f) == FsRemoveAll(f, FilesIn(f, "tmp"))

\* An abort that rolls back the working-area copies, as Publish does on decline.
CleanupAndAbort_RollsBackWorkingCopies(f) == FsRemoveAll(f, Range(created) \cap DOMAIN f)

\* publish.rs:236-239  cleanup_and_abort: a no-op
CleanupAndAbort(f) == f

\* lines 193-207: the summary and the confirmation.
DelConfirm ==
    /\ pc = "d_confirm"
    /\ \E ans \in PromptResults :
       LET h == [hist EXCEPT !.answer = ans]
       IN  IF ans = "cancel"
           THEN /\ pc' = "done"
                /\ outcome' = "error"
                /\ err' = MkErr("prompt", NoPath, "prompt", {})
                /\ hist' = [h EXCEPT !.exit = "prompt_failed"]
                /\ UNCHANGED <<fs, idx>>
           ELSE IF Proceeds(ans)
           THEN /\ pc' = "d_remove"
                /\ idx' = 1
                /\ hist' = h
                /\ UNCHANGED <<fs, outcome, err>>
           ELSE /\ fs' = CleanupAndAbort(fs)
                /\ pc' = "done"
                /\ outcome' = "aborted"
                /\ err' = NoErr
                /\ hist' = [h EXCEPT !.exit = "declined"]
                /\ UNCHANGED idx
    /\ UNCHANGED <<repo, args, result, op, selected, cfg, dirs, created, images, to_delete, backups>>

\* The loop never moves on from a path.
NextIndex_Stay(i) == i

\* publish.rs:210  `for p in &to_delete`: on to the next path
NextIndex(i) == i + 1

\* fs.rs:112-117  the copies restore_from_backups tries when the first j
\* succeed: one per record whose backup exists, up to the (j+1)-th, named by
\* the original it is copied to.
RestoreAttempts(f, pairs, j) ==
    Att("restore", {pairs[i][1] : i \in {k \in 1..Len(pairs) :
                                           k <= j + 1 /\ Exists(f, pairs[k][2])}})

\* remove_dir(dir) at the end of cleanup_backup_dir: it removes the directory
\* only when it is empty, and its failure is ignored.
DirsAfterCleanup(f, d) ==
    IF FilesIn(f, d) = {} THEN {dirs \ {d}, dirs} ELSE {dirs}

\* lines 209-217: one iteration of the removal loop, or its end.  When a
\* removal fails, restore_and_cleanup runs: the restore of the (j+1)-th backup
\* may fail, and then its error is returned by `?` before any cleanup.
DelRemove ==
    /\ pc = "d_remove"
    /\ IF idx > Len(to_delete)
       THEN /\ pc' = "d_git"
            /\ UNCHANGED <<dirs, fs, idx, outcome, err, hist>>
       ELSE LET p == to_delete[idx]
            IN  IF ~Exists(fs, p)
                THEN /\ idx' = NextIndex(idx)
                     /\ UNCHANGED <<dirs, fs, pc, outcome, err, hist>>
                ELSE \/ /\ fs' = FsRemove(fs, p)
                        /\ idx' = NextIndex(idx)
                        /\ hist' = Tried([hist EXCEPT !.removed = @ \cup {p}],
                                          Att("remove", {p}))
                        /\ UNCHANGED <<dirs, pc, outcome, err>>
                     \/ \E j \in 0..Len(backups) :
                           LET r == RestoreFromBackups(fs, SubSeq(backups, 1, j))
                               h == Tried(Tried([hist EXCEPT !.rmFailAt = idx,
                                                             !.exit = "remove_failed"],
                                                Att("remove", {p})),
                                          RestoreAttempts(fs, backups, j))
                           IN  IF j < Len(backups)
                               THEN /\ fs' = r
                                    /\ pc' = "done"
                                    /\ outcome' = "error"
                                    /\ err' = MkErr("restore_failed", backups[j + 1][1], "io", {})
                                    /\ hist' = [h EXCEPT !.restoreFailed = TRUE, !.restored = j]
                                    /\ UNCHANGED <<dirs, idx>>
                               ELSE \E F \in SUBSET FilesIn(r, "tmp") :
                                    /\ fs' = CleanupBackupDir(r, "tmp", F)
                                    /\ dirs' \in DirsAfterCleanup(fs', "tmp")
                                    /\ pc' = "done"
                                    /\ outcome' = "error"
                                    /\ err' = MkErr("remove_failed", p, "io", {})
                                    /\ hist' = Tried([h EXCEPT !.cleanupFailed = F,
                                                                !.restored = j,
                                                                !.rmdirFailed = ("tmp" \in dirs')],
                                                      Att("remove", FilesIn(r, "tmp")))
                                    /\ UNCHANGED idx
    /\ UNCHANGED <<repo, args, result, op, selected, cfg, created, images, to_delete, backups>>

\* lines 219-233: the git steps; restore (its failure only logged) and cleanup
\* when they fail, cleanup when they succeed.
DelGit ==
    /\ pc = "d_git"
    /\ \E g \in GitOutcomes :
       LET h == [hist EXCEPT !.vcCalls = @ + 1, !.vcResult = g]
       IN  IF g = "ok"
           THEN \E F \in SUBSET FilesIn(fs, "tmp") :
                /\ fs' = CleanupBackupDir(fs, "tmp", F)
                /\ dirs' \in DirsAfterCleanup(fs', "tmp")
                /\ pc' = "done"
                /\ outcome' = "success"
                /\ err' = NoErr
                /\ hist' = Tried([h EXCEPT !.exit = "ok", !.cleanupFailed = F,
                                            !.rmdirFailed = ("tmp" \in dirs')],
                                  Att("remove", FilesIn(fs, "tmp")))
           ELSE \E j \in 0..Len(backups) :
                LET r == RestoreFromBackups(fs, SubSeq(backups, 1, j))
                IN  \E F \in SUBSET FilesIn(r, "tmp") :
                    /\ fs' = CleanupBackupDir(r, "tmp", F)
                    /\ dirs' \in DirsAfterCleanup(fs', "tmp")
                    /\ pc' = "done"
                    /\ outcome' = "error"
                    /\ err' = MkErr("git", NoPath, g, {})
                    /\ hist' = Tried(Tried([h EXCEPT !.exit = "git_failed",
                                                      !.cleanupFailed = F,
                                                      !.restoreFailed = (j < Len(backups)),
                                                      !.restored = j,
                                                      !.rmdirFailed = ("tmp" \in dirs')],
                                            RestoreAttempts(fs, backups, j)),
                                      Att("remove", FilesIn(r, "tmp")))
    /\ UNCHANGED <<repo, args, result, op, selected, cfg, created, images, to_delete, backups, idx>>

Next ==
    \/ PubStart
    \/ PubListImages
    \/ PubCopyImage
    \/ PubConfirm
    \/ PubGit
    \/ DelStart
    \/ DelWbList
    \/ DelWbCopy
    \/ DelGather
    \/ DelConfirm
    \/ DelRemove
    \/ DelGit

Spec == Init /\ [][Next]_vars

----------------------------------------------------------------------------
(* Vocabulary of the properties *)

Done == pc = "done"

Fs0 == hist.fs0

\* Directory d holds the files it held at the start, with their contents.
SameAsStart(d) ==
    /\ FilesIn(fs, d) = FilesIn(Fs0, d)
    /\ \A p \in FilesIn(fs, d) : fs[p] = Fs0[p]

\* Every file directory d held at the start is still there with its content.
KeptFromStart(d) == \A p \in FilesIn(Fs0, d) : Exists(fs, p) /\ fs[p] = Fs0[p]

\* The files this call created in the collection that are still there.
LeftInCollection == {p \in DOMAIN fs : Dir(p) \in {"published", "pimg"} /\ ~Exists(Fs0, p)}

\* The working-images files that match the selected file's stem, stated from
\* the names alone: lower-cased name starts with the lower-cased stem and ends
\* with a recognized extension.
AssetOf(f, d) ==
    {p \in FilesIn(f, d) :
        /\ StartsWith(ToLowercase(FileName(p)), ToLowercase(FileStem(FileName(selected))))
        /\ ToLowercase(FileName(p))[Len(FileName(p))] \in Exts}

\* The temp directory holds, for every file of the deletion set that existed at
\* the start, a file with that file's original content.
BackupComplete ==
    \A p \in Range(to_delete) :
        Exists(Fs0, p) => \E b \in FilesIn(fs, "tmp") : fs[b] = Fs0[p]

----------------------------------------------------------------------------
(* C1 *)

\* C1: when the destination markdown exists as Publish starts, Publish ends in
\* an error and never writes: the file system and the set of directories stay
\* what they were at the start, in every state of the call.
C1_DestExistsNoWrites ==
    (op = "publish" /\ Exists(Fs0, DestMd)) =>
        /\ fs = Fs0
        /\ dirs = hist.dirs0
        /\ pc \in {"p_start", "done"}
        /\ Done => outcome = "error" /\ err.msg = "dest_md_exists" /\ err.path = DestMd

C1_Witness ==
    /\ op = "publish" /\ Exists(Fs0, DestMd) /\ Done /\ outcome = "error"
    /\ FilesIn(fs, "pimg") # {} /\ FilesIn(fs, "wimg") # {}

----------------------------------------------------------------------------
(* C2 *)

\* The next copy of the call finds a file at its target.
CopyTargetTaken ==
    \/ pc = "p_start" /\ Exists(fs, DestMd)
    \/ pc = "p_copy" /\ images # <<>> /\ Exists(fs, Join("pimg", FileName(Head(images))))
    \/ pc = "d_wb_copy" /\ images # <<>> /\ Exists(fs, Join("wimg", FileName(Head(images))))

C2_KeepsExisting ==
    /\ op = "publish" => KeptFromStart("published") /\ KeptFromStart("pimg")
    /\ op = "delete" => KeptFromStart("ready") /\ KeptFromStart("wimg")

\* C2: no copy of Publish and no copy of Delete's working-area backup
\* overwrites a file: every file that a destination directory of the call held
\* at the start keeps its content in every state, and a step that finds a file
\* at its copy target ends the call with an error.
C2_NeverOverwrites ==
    /\ []C2_KeepsExisting
    /\ [][CopyTargetTaken => pc' = "done" /\ outcome' = "error"]_vars

C2_Witness ==
    /\ op = "delete" /\ Done /\ hist.exit = "wb_img_conflict"
    /\ \E p \in FilesIn(Fs0, "wimg") : p \in AssetOf(fs, "wimg") /\ fs[p] = Fs0[p]

----------------------------------------------------------------------------
(* C3 *)

\* C3: on every exit of Publish other than success, no file this call created
\* is left in the collection files or images directories (files whose removal
\* was tried and failed aside).
C3_NoExitLeavesFiles ==
    (op = "publish" /\ Done /\ outcome # "success" /\ hist.rmFailed = {}) =>
        LeftInCollection = {}

----------------------------------------------------------------------------
(* C4 *)

\* C4: when the copy of the k-th matching asset finds its destination taken or
\* fails, Publish ends in an error; the markdown and the k-1 assets copied
\* before it are gone unless their removal failed, and a conflicting file
\* that was there before is still there with its content.
C4_AssetFailureRollsBack ==
    (op = "publish" /\ Done /\ hist.exit \in {"img_conflict", "img_copy_failed"}) =>
        /\ outcome = "error"
        /\ created[1] = DestMd
        /\ Len(created) + Len(images) = 1 + Cardinality(AssetOf(fs, "wimg"))
        /\ \A p \in Range(created) : ~Exists(fs, p) \/ p \in hist.rmFailed
        /\ hist.rmFailed \subseteq Range(created)
        /\ hist.exit = "img_conflict" =>
              LET c == Join("pimg", FileName(Head(images)))
              IN  Exists(Fs0, c) /\ Exists(fs, c) /\ fs[c] = Fs0[c]

C4_Witness ==
    /\ op = "publish" /\ Done /\ hist.exit = "img_conflict"
    /\ Len(created) = 2 /\ Range(created) \cap DOMAIN fs = {}

----------------------------------------------------------------------------
(* C5 *)

\* C5: when the Publish confirmation is declined, every copied file is gone
\* unless its removal failed; the outcome is "aborted" exactly when every
\* removal succeeded and an error otherwise; and when every removal succeeded
\* the collection files and images directories are as they were at the start.
C5_DeclineRollsBack ==
    (op = "publish" /\ Done /\ hist.exit = "declined") =>
        /\ \A p \in Range(created) : ~Exists(fs, p) \/ p \in hist.rmFailed
        /\ outcome = "aborted" <=> Range(created) \cap DOMAIN fs = {}
        /\ outcome # "aborted" => outcome = "error" /\ err.failures = Range(created) \cap DOMAIN fs
        /\ outcome = "aborted" => SameAsStart("published") /\ SameAsStart("pimg")

C5_Witness ==
    /\ op = "publish" /\ Done /\ hist.exit = "declined" /\ outcome = "aborted"
    /\ Len(created) = 3

----------------------------------------------------------------------------
(* C6 *)

\* C6 as stated: when the runner fails during Publish, every staged file is
\* removed and the error returned contains the runner's error text.
C6_Original ==
    (op = "publish" /\ Done /\ hist.exit = "git_failed") =>
        /\ Range(created) \cap DOMAIN fs = {}
        /\ outcome = "error" /\ err.cause = hist.vcResult

\* C6 amended: when the runner fails during Publish, the removal of every
\* staged file is attempted and every staged file whose removal did not fail
\* is gone; Publish returns an error that contains the runner's error text
\* and lists the removals that failed.
C6_GitFailureRollsBack ==
    (op = "publish" /\ Done /\ hist.exit = "git_failed") =>
        /\ \A p \in Range(created) : ~Exists(fs, p) \/ p \in hist.rmFailed
        /\ hist.vcResult \in GitOutcomes \ {"ok"}
        /\ outcome = "error" /\ err.cause = hist.vcResult
        /\ err.failures = Range(created) \cap DOMAIN fs

C6_Witness ==
    /\ op = "publish" /\ Done /\ hist.exit = "git_failed" /\ hist.vcResult = "push_failed"
    /\ Len(created) = 2 /\ Cardinality(Range(created) \cap DOMAIN fs) = 1

----------------------------------------------------------------------------
(* C7 *)

\* The state in which Publish may invoke the runner: the markdown and every
\* matching asset have been copied and the confirmation was answered yes.
PublishStaged ==
    /\ hist.answer = "yes"
    /\ Exists(fs, DestMd) /\ fs[DestMd] = fs[selected]
    /\ ImagesConfigured =>
          \A p \in AssetOf(fs, "wimg") :
              LET d == Join("pimg", FileName(p))
              IN  Exists(fs, d) /\ fs[d] = fs[p] /\ d \in Range(created)

\* The state in which Delete may invoke the runner: the confirmation was
\* answered yes and every file of the deletion set has been removed.
DeleteRemoved ==
    /\ hist.answer = "yes"
    /\ hist.rmFailAt = 0
    /\ selected \in Range(to_delete)
    /\ Range(to_delete) \cap DOMAIN fs = {}

\* C7: the runner is invoked at most once in a run, in Publish only after the
\* markdown copy and every asset copy succeeded and the confirmation was
\* answered yes, in Delete only after the confirmation was answered yes and
\* every removal of the deletion set succeeded.
C7_RunnerOnceAfterStaging ==
    [][hist'.vcCalls # hist.vcCalls =>
          /\ hist.vcCalls = 0 /\ hist'.vcCalls = 1
          /\ op = "publish" => PublishStaged
          /\ op = "delete" => DeleteRemoved]_vars

C7_Witness ==
    /\ op = "delete" /\ hist.vcCalls = 1 /\ Len(to_delete) = 3 /\ outcome = "success"

----------------------------------------------------------------------------
(* C8 *)

\* C8: a Publish with both image directories configured, no conflict, the
\* confirmation answered yes and a successful runner ends in success; the
\* collection files directory holds a copy of the selected file, the
\* collection images directory a copy of every working-images asset matching
\* the stem, each with the content of its source; and the staged paths are
\* the markdown followed by exactly those assets.
C8_PublishHappyPath ==
    (op = "publish" /\ ImagesConfigured /\ Done /\ hist.vcResult = "ok") =>
        /\ outcome = "success" /\ err = NoErr
        /\ Exists(fs, DestMd) /\ fs[DestMd] = Fs0[selected]
        /\ \A p \in AssetOf(Fs0, "wimg") :
              Exists(fs, Join("pimg", FileName(p))) /\ fs[Join("pimg", FileName(p))] = Fs0[p]
        /\ created[1] = DestMd
        /\ Len(created) = 1 + Cardinality(AssetOf(Fs0, "wimg"))
        /\ Range(created) = {DestMd} \cup {Join("pimg", FileName(p)) : p \in AssetOf(Fs0, "wimg")}

C8_Witness ==
    /\ op = "publish" /\ ImagesConfigured /\ Done /\ outcome = "success"
    /\ Cardinality(AssetOf(Fs0, "wimg")) = 2
    /\ FilesIn(Fs0, "pimg") # {}

----------------------------------------------------------------------------
(* C9 *)

\* Some file the collection held at the start is gone.
CollectionFileGone ==
    \E p \in DOMAIN Fs0 : Dir(p) \in {"published", "pimg"} /\ ~Exists(fs, p)

\* C9: the backup of the whole deletion set is complete before the first
\* removal: Delete removes collection files only in its removal loop, and from
\* the start of the loop until the call returns or cleans up the temp
\* directory holds a copy of every file of the deletion set with its original
\* content.
C9_BackupBeforeRemoval ==
    op = "delete" =>
        /\ CollectionFileGone => pc \in {"d_remove", "d_git", "done"}
        /\ hist.removed # {} => pc \in {"d_remove", "d_git", "done"}
        /\ pc \in {"d_remove", "d_git"} =>
              /\ BackupComplete
              /\ Range(to_delete) = {selected} \cup (IF "pimg" \in cfg THEN AssetOf(Fs0, "pimg") ELSE {})

C9_Witness ==
    /\ op = "delete" /\ pc = "d_git" /\ Len(to_delete) = 3
    /\ hist.removed = Range(to_delete)

----------------------------------------------------------------------------
(* C10 *)

\* C10: when the removal of the i-th file of the deletion set fails, no later
\* file of the set is removed, every file removed before is back at its path
\* with its original content, the temp directory is cleaned up (files whose
\* removal failed aside), and Delete fails with the removal error.
C10_RemovalFailureRestores ==
    (op = "delete" /\ Done /\ hist.rmFailAt # 0) =>
        /\ \A i \in hist.rmFailAt..Len(to_delete) : Exists(fs, to_delete[i])
        /\ \A p \in hist.removed : Exists(fs, p) /\ fs[p] = Fs0[p]
        /\ FilesIn(fs, "tmp") \subseteq hist.cleanupFailed
        /\ outcome = "error" /\ err.msg = "remove_failed"
        /\ err.path = to_delete[hist.rmFailAt]

----------------------------------------------------------------------------
(* C11 *)

\* C11 as stated: when the runner fails after Delete removed the deletion set,
\* Delete returns the runner's error and every removed file is back at its
\* path with its original content.
C11_Original ==
    (op = "delete" /\ Done /\ hist.exit = "git_failed") =>
        /\ outcome = "error" /\ err.cause = hist.vcResult
        /\ \A p \in hist.removed : Exists(fs, p) /\ fs[p] = Fs0[p]

\* C11 amended: when the runner fails after Delete removed the deletion set,
\* Delete copies the backups back in order and returns the runner's error;
\* every removed file whose copy-back was made is back at its path with its
\* original content, and all of them are when no copy-back fails.  A failing
\* copy-back is not part of the error and ends the restoration.
C11_GitFailureRestores ==
    (op = "delete" /\ Done /\ hist.exit = "git_failed") =>
        /\ hist.vcResult \in GitOutcomes \ {"ok"}
        /\ outcome = "error" /\ err.msg = "git" /\ err.cause = hist.vcResult
        /\ hist.removed = {backups[i][1] : i \in 1..Len(backups)}
        /\ \A i \in 1..hist.restored :
              Exists(fs, backups[i][1]) /\ fs[backups[i][1]] = Fs0[backups[i][1]]
        /\ \A i \in (hist.restored + 1)..Len(backups) : ~Exists(fs, backups[i][1])
        /\ hist.restoreFailed <=> hist.restored < Len(backups)

C11_Witness ==
    /\ op = "delete" /\ Done /\ hist.exit = "git_failed"
    /\ ~hist.restoreFailed /\ Cardinality(hist.removed) = 3
    /\ \A p \in hist.removed : Exists(fs, p) /\ fs[p] = Fs0[p]

----------------------------------------------------------------------------
(* C12 *)

\* C12: on every failure exit of Publish and Delete where the compensating
\* action (rollback or restore) itself failed, the error returned still holds
\* the error that triggered it: the conflicting path, the i/o error of the
\* copy, the removal error or the runner's error.
C12_ErrorKeepsTrigger ==
    (Done /\ outcome = "error") =>
        /\ (op = "publish" /\ hist.exit = "img_conflict" /\ hist.rmFailed # {}) =>
              err.path # NoPath /\ Dir(err.path) = "pimg"
        /\ (op = "publish" /\ hist.exit = "img_copy_failed" /\ hist.rmFailed # {}) =>
              err.cause = "io"
        /\ (op = "publish" /\ hist.exit = "git_failed" /\ hist.rmFailed # {}) =>
              err.cause = hist.vcResult
        /\ (op = "delete" /\ hist.exit = "remove_failed" /\ hist.restoreFailed) =>
              err.msg = "remove_failed" /\ err.path = to_delete[hist.rmFailAt]
        /\ (op = "delete" /\ hist.exit = "git_failed" /\ hist.restoreFailed) =>
              err.cause = hist.vcResult

----------------------------------------------------------------------------
(* C13 *)

\* The deletion set as the claim describes it: the selected file plus every
\* asset of the collection images directory that matches its stem.
StatedDeletionSet ==
    {selected} \cup (IF "pimg" \in cfg THEN AssetOf(Fs0, "pimg") ELSE {})

\* C13: the deletion set of Delete is the selected file plus every matching
\* asset of the collection images directory, and after a successful Delete
\* exactly those files are gone: each of them is absent, and every other file
\* of the collection files and images directories is still there, unchanged,
\* with no file added.
C13_ExactlyDeletionSetRemoved ==
    op = "delete" =>
        /\ pc \in {"d_confirm", "d_remove", "d_git"} => Range(to_delete) = StatedDeletionSet
        /\ (Done /\ hist.exit = "ok") =>
              /\ outcome = "success"
              /\ Range(to_delete) = StatedDeletionSet
              /\ hist.removed = StatedDeletionSet
              /\ \A d \in {"published", "pimg"} :
                    /\ FilesIn(fs, d) = FilesIn(Fs0, d) \ StatedDeletionSet
                    /\ \A p \in FilesIn(fs, d) : fs[p] = Fs0[p]

C13_Witness ==
    /\ op = "delete" /\ Done /\ hist.exit = "ok"
    /\ Cardinality(StatedDeletionSet) = 2
    /\ \A p \in StatedDeletionSet : ~Exists(fs, p)
    /\ FilesIn(fs, "published") # {} /\ FilesIn(fs, "pimg") # {}

----------------------------------------------------------------------------
(* C14 *)

\* C14 as stated: when the Delete confirmation is declined, the temp backups
\* taken for this call are removed before Delete returns "aborted".
C14_Original ==
    (op = "delete" /\ Done /\ hist.exit = "declined") =>
        /\ outcome = "aborted"
        /\ \A i \in 1..Len(backups) : ~Exists(fs, backups[i][2])

\* C14 amended: when the Delete confirmation is declined, the temp backups
\* taken for this call are left in place: Delete returns "aborted" with the
\* temp directory and every backup, holding its original's content, still there.
C14_DeclineKeepsBackups ==
    (op = "delete" /\ Done /\ hist.exit = "declined") =>
        /\ outcome = "aborted"
        /\ "tmp" \in dirs
        /\ Len(backups) = Len(to_delete)
        /\ \A i \in 1..Len(backups) :
              /\ backups[i][1] = to_delete[i]
              /\ Exists(fs, backups[i][2])
              /\ fs[backups[i][2]] = Fs0[backups[i][1]]

C14_Witness ==
    /\ op = "delete" /\ Done /\ hist.exit = "declined" /\ outcome = "aborted"
    /\ Len(backups) = 3
    /\ \A i \in 1..3 : Exists(fs, backups[i][2])

----------------------------------------------------------------------------
(* C15 *)

\* C15 as stated: the temp backup directory is gone when Delete returns
\* success, and is still there with its backups when Delete returns because
\* the user declined.
C15_Original ==
    op = "delete" =>
        /\ (Done /\ hist.exit = "ok") => "tmp" \notin dirs /\ FilesIn(fs, "tmp") = {}
        /\ (Done /\ hist.exit = "declined") => "tmp" \in dirs /\ BackupComplete

\* C15 amended: when Delete returns success the removal of every backup and
\* of the temp directory has been attempted, failures ignored: the files left
\* in the temp directory are those whose removal failed, and the directory is
\* gone unless a backup is left or its own removal failed.  When Delete
\* returns because the user declined, the directory is still there with its
\* backups.
C15_TempDirLifecycle ==
    op = "delete" =>
        /\ (Done /\ hist.exit = "ok") =>
              /\ FilesIn(fs, "tmp") = hist.cleanupFailed
              /\ "tmp" \in dirs <=> hist.rmdirFailed
              /\ hist.cleanupFailed # {} => hist.rmdirFailed
              /\ (hist.cleanupFailed = {} /\ ~hist.rmdirFailed) =>
                    "tmp" \notin dirs /\ FilesIn(fs, "tmp") = {}
        /\ (Done /\ hist.exit = "declined") => "tmp" \in dirs /\ BackupComplete

C15_Witness ==
    /\ op = "delete" /\ Done /\ hist.exit = "ok"
    /\ Len(backups) = 3 /\ "tmp" \notin dirs /\ FilesIn(fs, "tmp") = {}

----------------------------------------------------------------------------
(* C16 *)

\* C16: when the Delete confirmation is answered no, nothing of the deletion
\* set has been removed or changed: the collection files and images
\* directories are as they were at the start, and the outcome is "aborted",
\* not an error.
C16_DeclineTouchesNothing ==
    (op = "delete" /\ Done /\ hist.answer = "no") =>
        /\ hist.exit = "declined"
        /\ hist.removed = {}
        /\ SameAsStart("published") /\ SameAsStart("pimg")
        /\ outcome = "aborted" /\ err = NoErr

C16_Witness ==
    /\ op = "delete" /\ Done /\ hist.answer = "no" /\ outcome = "aborted"
    /\ Len(to_delete) = 3
    /\ \A i \in 1..3 : Exists(fs, to_delete[i])

----------------------------------------------------------------------------
(* C17 *)

WbExits == {"wb_prompt_failed", "wb_md_exists", "wb_md_copy_failed", "wb_list_failed",
            "wb_mkdir_failed", "wb_img_conflict", "wb_img_copy_failed"}

\* The working-area backup step was taken and ran to its end without an error.
WbCompleted ==
    /\ op = "delete" /\ hist.wbAnswer = "yes"
    /\ \/ pc \in {"d_gather", "d_confirm", "d_remove", "d_git"}
       \/ Done /\ hist.exit \notin WbExits

\* The collection file a working-area copy was made from.
WbSource(p) == Join(IF Dir(p) = "ready" THEN "published" ELSE "pimg", FileName(p))

\* C17: once the working-area backup step of Delete has completed, the files
\* it copied into the working area (the markdown and the matching assets) stay
\* where they are with the content they were copied with, through the rest of
\* the call and on every exit.
C17_WorkingCopiesKept ==
    WbCompleted =>
        /\ Range(created) = {WorkingMd} \cup
              (IF ImagesConfigured
               THEN {Join("wimg", FileName(q)) : q \in AssetOf(Fs0, "pimg")} ELSE {})
        /\ \A p \in Range(created) :
              /\ ~Exists(Fs0, p)
              /\ Exists(fs, p) /\ fs[p] = Fs0[WbSource(p)]

C17_Witness ==
    /\ WbCompleted /\ Done /\ hist.exit = "git_failed"
    /\ Len(created) = 3 /\ hist.removed # {}
    /\ \A p \in Range(created) : Exists(fs, p)

----------------------------------------------------------------------------
(* C18 *)

----------------------------------------------------------------------------
(* matching_images_for_stem called on its own *)

\* The stems handed to the matcher, in pairs that differ at most in letter case.
MatcherStems == {<<"a">>, <<"A">>, <<"a", "x">>, <<"A", "x">>, <<"A", "X">>, <<"x">>}

SameUpToCase(s, t) ==
    /\ Len(s) = Len(t)
    /\ \A i \in 1..Len(s) : s[i] = t[i] \/ {s[i], t[i]} \in {{"a", "A"}, {"x", "X"}}

\* A subdirectory of d whose own name matches the stem "a", and a file in it.
SubDirName == <<"a", ".", "svg">>

SubDirOf(d) == IF d = "wimg" THEN "wimg/a.svg" ELSE "pimg/a.svg"

NestedFile(d) == <<SubDirOf(d), <<"a", ".", "gif">>>>

\* Directory d holding the regular files named in E and, by k, no
\* subdirectory, an empty one, or one with a file in it.
MatcherFs(d, E, k) ==
    LET files == {Join(d, n) : n \in E} \cup (IF k = "nested" THEN {NestedFile(d)} ELSE {})
        sub   == IF k = "none" THEN {} ELSE {Join(d, SubDirName)}
    IN  [p \in files \cup sub |-> IF p \in sub THEN SubDir ELSE p]

MatcherInit ==
    /\ op = "match"
    /\ selected = NoPath
    /\ cfg = ImageDirs
    /\ \E s \in MatcherStems, t \in MatcherStems, d \in ImageDirs :
          /\ SameUpToCase(s, t)
          /\ args = [stems |-> <<s, t>>, dir |-> d]
    /\ \E D \in SUBSET ImageDirs, E \in SUBSET AssetNames, k \in {"none", "empty", "nested"} :
          /\ args.dir \notin D => E = {} /\ k = "none"
          /\ dirs = D \cup (IF k = "none" THEN {} ELSE {SubDirOf(args.dir)})
          /\ fs = MatcherFs(args.dir, E, k)
    /\ pc = "m_start"
    /\ created = <<>>
    /\ images = <<>>
    /\ to_delete = <<>>
    /\ backups = <<>>
    /\ idx = 0
    /\ outcome = "none"
    /\ err = NoErr
    /\ hist = InitHist(fs, dirs)
    /\ result = NoResult
    /\ repo = NoRepo

\* fs.rs:19-45  what matching_images_for_stem(stem_lower, dir) can return: the
\* matches in the order read_dir yields them, or the error of read_dir, which
\* is only called on an existing directory.
MatcherReturns(stem_lower, d) ==
    {[ok |-> TRUE, paths |-> o] : o \in Orders(MatchingImagesForStem(stem_lower, d))}
    \cup (IF d \in dirs THEN {[ok |-> FALSE, paths |-> <<>>]} ELSE {})

\* The matcher called with each stem of the pair as it is (fs.rs:159).
MatchDirect ==
    /\ pc = "m_start"
    /\ result' \in MatcherReturns(args.stems[1], args.dir)
                   \X MatcherReturns(args.stems[2], args.dir)
    /\ pc' = "m_direct"
    /\ UNCHANGED <<repo, args, op, selected, cfg, dirs, fs, created, images, to_delete,
                   backups, idx, outcome, err, hist>>

\* The matcher called as Publish and Delete call it, with the stem lower-cased
\* (publish.rs:40, 124 and 143).
MatchLowered ==
    /\ pc = "m_start"
    /\ result' \in MatcherReturns(StemToLowercase(args.stems[1]), args.dir)
                   \X MatcherReturns(StemToLowercase(args.stems[2]), args.dir)
    /\ pc' = "m_lowered"
    /\ UNCHANGED <<repo, args, op, selected, cfg, dirs, fs, created, images, to_delete,
                   backups, idx, outcome, err, hist>>

MatcherNext ==
    \/ MatchDirect
    \/ MatchLowered

MatcherSpec == MatcherInit /\ [][MatcherNext]_vars

----------------------------------------------------------------------------
(* C19 *)

\* The entries the claim describes: directly inside d, regular files, the
\* lower-cased name starting with the stem and ending with one of the six
\* extensions.
StatedMatches(stem, d) ==
    {p \in DOMAIN fs :
        /\ p[1] = d
        /\ fs[p] # SubDir
        /\ LET n == ToLowercase(p[2])
           IN  /\ Len(n) >= Len(stem)
               /\ SubSeq(n, 1, Len(stem)) = stem
               /\ n[Len(n)] \in {"png", "jpg", "jpeg", "gif", "webp", "svg"}}

IsLowerCase(stem) == \A i \in 1..Len(stem) : stem[i] \notin {"A", "X"}

\* C19: for a lower-case stem and a directory, the matcher returns exactly the
\* entries directly inside the directory that are regular files and whose
\* lower-cased name starts with the stem and ends with one of png, jpg, jpeg,
\* gif, webp, svg, each once; for a directory that does not exist it returns
\* the empty list and not an error.
C19_MatcherExact ==
    (pc = "m_direct" /\ IsLowerCase(args.stems[1])) =>
        LET r == result[1]
        IN  /\ r.ok => /\ Range(r.paths) = StatedMatches(args.stems[1], args.dir)
                       /\ Len(r.paths) = Cardinality(StatedMatches(args.stems[1], args.dir))
            /\ args.dir \notin dirs => r.ok /\ r.paths = <<>>

C19_Witness ==
    /\ pc = "m_direct" /\ args.stems[1] = <<"a">> /\ result[1].ok
    /\ Len(result[1].paths) = 2
    /\ Cardinality(FilesIn(fs, args.dir)) = 5
    /\ Exists(fs, NestedFile(args.dir))

----------------------------------------------------------------------------
(* C20 *)

\* C20 as stated: the matcher lower-cases the stem it is given, so for two
\* stems that differ only in letter case it returns the same set of paths.
C20_Original ==
    (pc = "m_direct" /\ SameUpToCase(args.stems[1], args.stems[2])
        /\ result[1].ok /\ result[2].ok) =>
        Range(result[1].paths) = Range(result[2].paths)

\* C20 amended: the matcher compares the lower-cased entry names with its stem
\* argument as it is given, so a stem with an upper-case letter matches
\* nothing; Publish and Delete lower-case the stem before they call it, and
\* called that way two stems that differ only in letter case get the same set
\* of paths.
C20_CallersLowerCase ==
    /\ (pc = "m_lowered" /\ SameUpToCase(args.stems[1], args.stems[2])
           /\ result[1].ok /\ result[2].ok) =>
          Range(result[1].paths) = Range(result[2].paths)
    /\ pc = "m_direct" =>
          \A i \in 1..2 : (result[i].ok /\ ~IsLowerCase(args.stems[i])) => result[i].paths = <<>>

C20_Witness ==
    /\ pc = "m_lowered" /\ args.stems = <<<<"A">>, <<"a">>>>
    /\ result[1].ok /\ result[2].ok
    /\ Len(result[1].paths) = 2 /\ Range(result[1].paths) = Range(result[2].paths)

----------------------------------------------------------------------------
(* C29 *)

\* C29: Delete never destroys its only copy of a file.  When Delete has
\* returned without success, every file it removed is either back at its path
\* with its original content or still has its backup in the temp directory;
\* in particular, when the restoration after a runner failure failed, the
\* backups are still on disk.
C29_NeverDestroysOnlyCopy ==
    (op = "delete" /\ Done /\ hist.exit # "ok") =>
        \A p \in hist.removed :
            \/ Exists(fs, p) /\ fs[p] = Fs0[p]
            \/ \E b \in FilesIn(fs, "tmp") : fs[b] = Fs0[p]

----------------------------------------------------------------------------
(* The helper functions called on their own *)

\* The engine's variables, which a direct call of a helper leaves alone.
engineVars == <<selected, cfg, created, images, to_delete, backups, idx, outcome, err, hist>>

\* No Publish or Delete call is running.
EngineIdle ==
    /\ selected = NoPath
    /\ cfg = {}
    /\ created = <<>>
    /\ images = <<>>
    /\ to_delete = <<>>
    /\ backups = <<>>
    /\ idx = 0
    /\ outcome = "none"
    /\ err = NoErr
    /\ hist = InitHist(<<>>, {})

----------------------------------------------------------------------------
(* get_site_root *)

\* A directory tree is at most this deep.
MaxDepth == 3

\* The names a path segment can have.
Segments == {"content", "Content", "blog", "site"}

\* Paths as sequences of segments, the empty one being the root.
SegPaths == UNION {[1..n -> Segments] : n \in 0..MaxDepth}

\* Path::parent: None for a path without segments.
HasParent(p) == Len(p) > 0

Parent(p) == SubSeq(p, 1, Len(p) - 1)

\* The parent of the topmost directory named content.
GetSiteRoot_Topmost(published) ==
    LET hits == {i \in 1..Len(published) : published[i] = "content"}
    IN  IF hits # {}
        THEN [panic |-> FALSE,
              root |-> SubSeq(published, 1, (CHOOSE i \in hits : \A j \in hits : i <= j) - 1)]
        ELSE IF HasParent(published) THEN [panic |-> FALSE, root |-> Parent(published)]
        ELSE [panic |-> TRUE, root |-> <<>>]

\* git.rs:7-14  the loop over published.ancestors(), from anc on upward, and
\* the fall-back after it; parent().unwrap() panics on a path without parent.
RECURSIVE SiteRootFrom(_, _)
SiteRootFrom(published, anc) ==
    IF HasParent(anc) /\ anc[Len(anc)] = "content"
    THEN [panic |-> FALSE, root |-> Parent(anc)]
    ELSE IF HasParent(anc) THEN SiteRootFrom(published, Parent(anc))
    ELSE IF HasParent(published) THEN [panic |-> FALSE, root |-> Parent(published)]
    ELSE [panic |-> TRUE, root |-> <<>>]

\* git.rs:6-15  get_site_root
GetSiteRoot(published) == SiteRootFrom(published, published)

SiteRootInit ==
    /\ op = "site_root"
    /\ EngineIdle
    /\ dirs = {}
    /\ fs = <<>>
    /\ args \in {[published |-> p] : p \in SegPaths}
    /\ result = NoResult
    /\ repo = NoRepo
    /\ pc = "s_start"

SiteRootCall ==
    /\ pc = "s_start"
    /\ result' = GetSiteRoot(args.published)
    /\ pc' = "s_done"
    /\ UNCHANGED <<op, dirs, fs, args, repo>>
    /\ UNCHANGED engineVars

SiteRootNext == SiteRootCall

SiteRootSpec == SiteRootInit /\ [][SiteRootNext]_vars

----------------------------------------------------------------------------
(* C21 *)

\* The positions of the segments of p that are named exactly content.
ContentAt(p) == {i \in 1..Len(p) : p[i] = "content"}

\* C21: for a path that has a parent, get_site_root returns the parent of the
\* nearest directory named exactly content among the path and its ancestors,
\* searching from the path upward, and the immediate parent of the path when
\* there is none.
C21_SiteRoot ==
    (pc = "s_done" /\ args.published # <<>>) =>
        LET p == args.published
        IN  /\ ~result.panic
            /\ ContentAt(p) # {} =>
                  \E i \in ContentAt(p) :
                      /\ \A j \in ContentAt(p) : j <= i
                      /\ result.root = [k \in 1..(i - 1) |-> p[k]]
            /\ ContentAt(p) = {} => result.root = [k \in 1..(Len(p) - 1) |-> p[k]]

C21_Witness ==
    /\ pc = "s_done" /\ args.published = <<"content", "content", "blog">>
    /\ result = [panic |-> FALSE, root |-> <<"content">>]

----------------------------------------------------------------------------
(* run_git_steps *)

\* The files of the work tree, as absolute paths; the last one lies outside
\* the site root.
SiteRoot == <<"site">>

RepoFiles == {<<"site", "content", "a.md">>, <<"site", "content", "a.png">>, <<"site", "notes">>}

OutsideFile == <<"other", "a.md">>

\* Path::strip_prefix / starts_with on whole segments
IsPrefix(base, p) == Len(base) <= Len(p) /\ SubSeq(p, 1, Len(base)) = base

\* Every path handed to git add as "." instead.
RelArgs_AddAll(site_root, paths) == [i \in 1..Len(paths) |-> [abs |-> FALSE, segs |-> <<>>]]

\* git.rs:17-26  rel_args: a path under site_root loses that prefix, any other
\* path is passed as it is.
RelArgs(site_root, paths) ==
    [i \in 1..Len(paths) |->
        IF IsPrefix(site_root, paths[i])
        THEN [abs |-> FALSE, segs |-> SubSeq(paths[i], Len(site_root) + 1, Len(paths[i]))]
        ELSE [abs |-> TRUE, segs |-> paths[i]]]

\* How git, run with current_dir(cwd), reads a path argument.
Resolve(cwd, a) == IF a.abs THEN a.segs ELSE cwd \o a.segs

\* The paths of S that the arguments name, a directory naming all below it.
PathspecMatches(cwd, rels, S) ==
    {d \in S : \E i \in 1..Len(rels) : IsPrefix(Resolve(cwd, rels[i]), d)}

\* An argument outside the repository makes git add fail.
OutsideRepo(cwd, rels) == \E i \in 1..Len(rels) : ~IsPrefix(cwd, Resolve(cwd, rels[i]))

\* git reset HEAD <paths>: the named paths leave the index.
GitReset(r, cwd, rels) ==
    LET m == PathspecMatches(cwd, rels, r.index)
    IN  [r EXCEPT !.index = @ \ m, !.dirty = @ \cup m]

\* The pre-staged check passed whatever the index holds.
HasStagedChanges_Ignored(r) == FALSE

\* git.rs:53-59  git diff --cached --quiet exits non-zero when the index
\* differs from HEAD.
HasStagedChanges(r) == r.index # {}

NoRun == [done |-> FALSE, ok |-> FALSE, step |-> "none", text |-> "none", log |-> <<>>,
          staged |-> {}, add_args |-> <<>>, reset_failed |-> FALSE]

\* One list for each set of paths.
SeqOf(S) == CHOOSE s \in Orders(S) : TRUE

RunnerInit ==
    /\ op = "run_git_steps"
    /\ EngineIdle
    /\ dirs = {}
    /\ fs = <<>>
    /\ \E is_repo \in BOOLEAN, D \in SUBSET RepoFiles, I \in SUBSET RepoFiles :
          /\ ~is_repo => D = {} /\ I = {}
          /\ repo = [is_repo |-> is_repo, dirty |-> D, index |-> I, head |-> <<>>, pushed |-> 0]
    /\ \E P \in (SUBSET (RepoFiles \cup {OutsideFile})) \ {{}} :
          args = [site_root |-> SiteRoot, paths |-> SeqOf(P), repo0 |-> repo]
    /\ result = NoRun
    /\ pc = "r_check"

\* `?` on Command::output()/status(): the command could not be run.
SpawnFailed(step) ==
    /\ result' = [result EXCEPT !.done = TRUE, !.ok = FALSE, !.step = step, !.text = "io",
                                !.log = Append(@, <<step, "spawn_failed">>)]
    /\ pc' = "r_done"
    /\ UNCHANGED repo

\* return Err(anyhow!(..)) after the command exited with a failure status.
StepFailed(step, text) ==
    /\ result' = [result EXCEPT !.done = TRUE, !.ok = FALSE, !.step = step, !.text = text,
                                !.log = Append(@, <<step, "failed">>)]
    /\ pc' = "r_done"

StepOk(step, next) ==
    /\ result' = [result EXCEPT !.log = Append(@, <<step, "ok">>)]
    /\ pc' = next

\* git.rs:38-50  git rev-parse --git-dir
RunRevParse ==
    /\ pc = "r_check"
    /\ \/ SpawnFailed("check")
       \/ /\ ~repo.is_repo
          /\ StepFailed("check", "captured")
          /\ UNCHANGED repo
       \/ /\ repo.is_repo
          /\ StepOk("check", "r_prestaged")
          /\ UNCHANGED repo
    /\ UNCHANGED <<op, dirs, fs, args>>
    /\ UNCHANGED engineVars

\* git.rs:52-64  git diff --cached --quiet
RunPreStaged ==
    /\ pc = "r_prestaged"
    /\ \/ SpawnFailed("pre_staged")
       \/ /\ HasStagedChanges(repo)
          /\ StepFailed("pre_staged", "pre-existing staged changes")
          /\ UNCHANGED repo
       \/ /\ ~HasStagedChanges(repo)
          /\ StepOk("pre_staged", "r_add")
          /\ UNCHANGED repo
    /\ UNCHANGED <<op, dirs, fs, args>>
    /\ UNCHANGED engineVars

\* git.rs:66-78  rel_args and git add.  A git add that exits with a failure
\* status has not staged every path it was given, but may have staged some
\* (it stages the others when one of them is ignored); the runner returns
\* without a reset.
RunAdd ==
    /\ pc = "r_add"
    /\ LET rels == RelArgs(args.site_root, args.paths)
           m    == PathspecMatches(args.site_root, rels, repo.dirty)
       IN  \/ SpawnFailed("add")
           \/ \E S \in SUBSET m :
                 /\ OutsideRepo(args.site_root, rels) => S = {}
                 /\ Range(args.paths) \ S # {}
                 /\ repo' = [repo EXCEPT !.index = @ \cup S, !.dirty = @ \ S]
                 /\ result' = [result EXCEPT !.done = TRUE, !.ok = FALSE, !.step = "add",
                                             !.text = "captured", !.staged = S,
                                             !.add_args = rels,
                                             !.log = Append(@, <<"add", "failed">>)]
                 /\ pc' = "r_done"
           \/ /\ ~OutsideRepo(args.site_root, rels)
              /\ repo' = [repo EXCEPT !.index = @ \cup m, !.dirty = @ \ m]
              /\ result' = [result EXCEPT !.staged = m, !.add_args = rels,
                                          !.log = Append(@, <<"add", "ok">>)]
              /\ pc' = "r_commit"
    /\ UNCHANGED <<op, dirs, fs, args>>
    /\ UNCHANGED engineVars

\* reset_paths, git.rs:28-35: git reset HEAD <rels>, its status ignored.
ResetPaths(ok) ==
    repo' = IF ok THEN GitReset(repo, args.site_root, result.add_args) ELSE repo

\* git.rs:80-92  git commit -m; it has nothing to commit on an empty index.
RunCommit ==
    /\ pc = "r_commit"
    /\ \/ SpawnFailed("commit")
       \/ \E ok \in BOOLEAN :
             /\ ResetPaths(ok)
             /\ result' = [result EXCEPT !.done = TRUE, !.ok = FALSE, !.step = "commit",
                                         !.text = "captured", !.reset_failed = ~ok,
                                         !.log = Append(@, <<"commit", "failed">>)]
             /\ pc' = "r_done"
       \/ /\ repo.index # {}
          /\ repo' = [repo EXCEPT !.head = Append(@, repo.index), !.index = {}]
          /\ StepOk("commit", "r_push")
    /\ UNCHANGED <<op, dirs, fs, args>>
    /\ UNCHANGED engineVars

\* git.rs:94-106  git push
RunPush ==
    /\ pc = "r_push"
    /\ \/ SpawnFailed("push")
       \/ \E ok \in BOOLEAN :
             /\ ResetPaths(ok)
             /\ result' = [result EXCEPT !.done = TRUE, !.ok = FALSE, !.step = "push",
                                         !.text = "captured", !.reset_failed = ~ok,
                                         !.log = Append(@, <<"push", "failed">>)]
             /\ pc' = "r_done"
       \/ /\ repo' = [repo EXCEPT !.pushed = Len(repo.head)]
          /\ result' = [result EXCEPT !.done = TRUE, !.ok = TRUE, !.step = "push",
                                      !.log = Append(@, <<"push", "ok">>)]
          /\ pc' = "r_done"
    /\ UNCHANGED <<op, dirs, fs, args>>
    /\ UNCHANGED engineVars

RunnerNext ==
    \/ RunRevParse
    \/ RunPreStaged
    \/ RunAdd
    \/ RunCommit
    \/ RunPush

RunnerSpec == RunnerInit /\ [][RunnerNext]_vars

----------------------------------------------------------------------------
(* C22 *)

RunnerDone == pc = "r_done" /\ result.done

StepsRun == {result.log[i][1] : i \in 1..Len(result.log)}

\* C22: when the index already holds staged changes as the runner is called,
\* the runner fails without running add, commit or push: the index, the
\* history and the remote are what they were, so the staged changes are in no
\* commit of this call.
C22_PreStagedRefused ==
    (op = "run_git_steps" /\ args.repo0.index # {}) =>
        /\ StepsRun \cap {"add", "commit", "push"} = {}
        /\ repo = args.repo0
        /\ RunnerDone => ~result.ok /\ result.step \in {"check", "pre_staged"}

C22_Witness ==
    /\ RunnerDone /\ args.repo0.index # {} /\ args.repo0.dirty # {}
    /\ result.step = "pre_staged" /\ result.text = "pre-existing staged changes"
    /\ repo = args.repo0

----------------------------------------------------------------------------
(* C23 *)

\* C23: when the runner fails at the add, commit or push step (the reset it
\* runs not failing itself), none of the paths it staged is still in the index
\* when it returns, and it returns the captured text of the failed step (the
\* i/o error when the step could not be run at all).
C23_FailureUnstages ==
    (RunnerDone /\ ~result.ok /\ result.step \in {"add", "commit", "push"}
        /\ ~result.reset_failed) =>
        /\ result.staged \cap repo.index = {}
        /\ <<result.step, "failed">> \in Range(result.log) => result.text = "captured"

----------------------------------------------------------------------------
(* C24 *)

StepOrder == <<"check", "pre_staged", "add", "commit", "push">>

\* C24: the runner runs the repository check, the pre-staged check, add,
\* commit and push in that order, each only after every earlier one
\* succeeded; add is given exactly the paths of the call, those under the
\* repository root made relative to it, and stages those paths and nothing
\* else; the runner returns success only when push succeeded.
C24_StepsInOrder ==
    op = "run_git_steps" =>
        LET log == result.log
        IN  /\ Len(log) <= 5
            /\ \A i \in 1..Len(log) : log[i][1] = StepOrder[i]
            /\ \A i \in 1..(Len(log) - 1) : log[i][2] = "ok"
            /\ "add" \in StepsRun /\ result.add_args # <<>> =>
                  /\ Len(result.add_args) = Len(args.paths)
                  /\ \A i \in 1..Len(args.paths) :
                        /\ Resolve(args.site_root, result.add_args[i]) = args.paths[i]
                        /\ result.add_args[i].abs <=> ~IsPrefix(args.site_root, args.paths[i])
                  /\ result.staged \subseteq Range(args.paths)
                  /\ repo.index \cup UNION Range(repo.head) \subseteq Range(args.paths)
            /\ <<"add", "ok">> \in Range(log) =>
                  result.staged = Range(args.paths) \cap args.repo0.dirty
            /\ (RunnerDone /\ result.ok) =>
                  /\ log = [i \in 1..5 |-> <<StepOrder[i], "ok">>]
                  /\ repo.head = <<Range(args.paths) \cap args.repo0.dirty>>
                  /\ repo.pushed = 1 /\ repo.index = {}

C24_Witness ==
    /\ RunnerDone /\ result.ok /\ Len(args.paths) = 2
    /\ args.repo0.dirty = RepoFiles
    /\ repo.head = <<Range(args.paths)>> /\ repo.dirty # {}

----------------------------------------------------------------------------
(* C30 *)

\* C30: when the runner returns failure, the repository has no new local
\* commit from this call: HEAD is what it was before, also when commit
\* succeeded and push failed.
C30_FailureLeavesHead ==
    (RunnerDone /\ ~result.ok) => repo.head = args.repo0.head

----------------------------------------------------------------------------
(* rollback_remove_files, backup_files_to_temp, restore_from_backups *)

\* The clock reads at most this many different milliseconds.
MaxClock == 2

\* The paths handed to the helpers: two of them have the same file name.
HelperPaths == {<<"published", <<"a", ".", "md">>>>,
                <<"published", <<"a", ".", "png">>>>,
                <<"pimg", <<"a", ".", "png">>>>}

\* fs.rs:92-94  temp_dir()/nuch-delete-{millis}
TempDirName(ts) ==
    CASE ts = 1 -> "nuch-delete-1"
      [] ts = 2 -> "nuch-delete-2"
      [] ts = 3 -> "nuch-delete-3"
      [] OTHER  -> "nuch-delete-4"

\* fs.rs:111-119  restore_from_backups(pairs) when the copies of the records
\* in Fc fail: the records are copied back in order up to the first one whose
\* copy fails, and the error of that copy is returned.
RestoreOutcome(f, pairs, Fc) ==
    LET bad == {i \in 1..Len(pairs) : i \in Fc /\ Exists(f, pairs[i][2])}
    IN  IF bad = {} THEN [fs |-> RestoreFromBackups(f, pairs), ok |-> TRUE]
        ELSE [fs |-> RestoreFromBackups(f,
                        SubSeq(pairs, 1, (CHOOSE i \in bad : \A j \in bad : i <= j) - 1)),
              ok |-> FALSE]

NoCall == [ok |-> TRUE, dir |-> "none", existed |-> FALSE, clock |-> 0, pairs |-> <<>>,
           before |-> <<>>, failing |-> {}, failures |-> {}, removed |-> {}]

HelpersInit ==
    /\ op = "fs_helpers"
    /\ EngineIdle
    /\ dirs = {"published", "pimg"}
    /\ \E E \in SUBSET HelperPaths : fs = [p \in E |-> p]
    /\ \E S \in (SUBSET HelperPaths) \ {{}}, T \in (SUBSET HelperPaths) \ {{}} :
       \E s \in Orders(S) :
          args = [files |-> s, files2 |-> SeqOf(T), fs0 |-> fs]
    /\ result = NoCall
    /\ repo = NoRepo
    /\ pc = "h_start"

\* rollback_remove_files(files), the removals of F failing.
HelperRollback ==
    /\ pc = "h_start"
    /\ \E F \in SUBSET (Range(args.files) \cap DOMAIN fs) :
          /\ fs' = RollbackRemoveFiles(fs, args.files, F)
          /\ result' = [result EXCEPT !.failing = F,
                                      !.failures = RollbackFailures(fs, args.files, F)]
    /\ pc' = "h_rolled_back"
    /\ UNCHANGED <<op, dirs, args, repo>>
    /\ UNCHANGED engineVars

\* fs.rs:90-109  backup_files_to_temp(files) at clock reading ts: the
\* directory named after ts is created unless it is there (create_dir_all),
\* then the files are copied; create_dir_all or the copy of the (k+1)-th file
\* may fail.
BackupCall(files, ts, done, failed) ==
    LET d == TempDirName(ts)
    IN  \/ /\ d \notin dirs
           /\ result' = [result EXCEPT !.ok = FALSE, !.dir = d, !.clock = ts, !.before = fs]
           /\ pc' = failed
           /\ UNCHANGED <<fs, dirs>>
        \/ \E k \in 0..(Len(files) - 1) :
              /\ Exists(fs, files[k + 1])
              /\ fs' = BackupFilesToTempIn(fs, SubSeq(files, 1, k), d).fs
              /\ dirs' = dirs \cup {d}
              /\ result' = [result EXCEPT !.ok = FALSE, !.dir = d, !.clock = ts,
                                          !.existed = (d \in dirs), !.before = fs]
              /\ pc' = failed
        \/ LET r == BackupFilesToTempIn(fs, files, d)
           IN  /\ fs' = r.fs
               /\ dirs' = dirs \cup {d}
               /\ result' = [result EXCEPT !.ok = TRUE, !.dir = d, !.clock = ts,
                                           !.existed = (d \in dirs), !.before = fs,
                                           !.pairs = IF done = "h_backed_up" THEN r.pairs ELSE @]
               /\ pc' = done

\* One Delete invocation takes its backups.
HelperBackup ==
    /\ pc = "h_start"
    /\ \E ts \in 1..MaxClock : BackupCall(args.files, ts, "h_backed_up", "h_backup_failed")
    /\ UNCHANGED <<op, args, repo>>
    /\ UNCHANGED engineVars

\* Another Delete invocation takes its backups, in the same millisecond or later.
HelperSecondBackup ==
    /\ pc = "h_backed_up"
    /\ \E ts \in result.clock..MaxClock :
          BackupCall(args.files2, ts, "h_second_backed_up", "h_second_failed")
    /\ UNCHANGED <<op, args, repo>>
    /\ UNCHANGED engineVars

\* publish.rs:210-217  some of the backed-up originals are removed.
HelperRemove ==
    /\ pc = "h_backed_up"
    /\ \E R \in SUBSET {result.pairs[i][1] : i \in 1..Len(result.pairs)} :
          /\ fs' = FsRemoveAll(fs, R)
          /\ result' = [result EXCEPT !.removed = R]
    /\ pc' = "h_removed"
    /\ UNCHANGED <<op, dirs, args, repo>>
    /\ UNCHANGED engineVars

\* restore_from_backups(pairs), the copies of the records in Fc failing.
HelperRestore ==
    /\ pc = "h_removed"
    /\ \E Fc \in SUBSET (1..Len(result.pairs)) :
          LET r == RestoreOutcome(fs, result.pairs, Fc)
          IN  /\ fs' = r.fs
              /\ result' = [result EXCEPT !.ok = r.ok, !.failing = Fc, !.before = fs]
    /\ pc' = "h_restored"
    /\ UNCHANGED <<op, dirs, args, repo>>
    /\ UNCHANGED engineVars

HelpersNext ==
    \/ HelperRollback
    \/ HelperBackup
    \/ HelperSecondBackup
    \/ HelperRemove
    \/ HelperRestore

HelpersSpec == HelpersInit /\ [][HelpersNext]_vars

----------------------------------------------------------------------------
(* C25 *)

\* C25: two Delete invocations never share a temp backup directory: the
\* directory backup_files_to_temp uses did not exist before the call, and the
\* backups an earlier invocation took are as it left them after a later one
\* has taken its own.
C25_FreshTempDir ==
    /\ pc = "h_backed_up" => ~result.existed
    /\ pc = "h_second_backed_up" =>
          /\ ~result.existed
          /\ \A i \in 1..Len(result.pairs) :
                /\ Exists(fs, result.pairs[i][2])
                /\ fs[result.pairs[i][2]] = result.before[result.pairs[i][2]]

----------------------------------------------------------------------------
(* C26 *)

\* C26: rollback_remove_files tries the removal of every existing path of its
\* input, also after an earlier removal failed: afterwards every input path
\* whose removal did not fail is absent, the paths whose removal failed and
\* every other file are untouched, and the failures returned are exactly the
\* input paths that existed and could not be removed.
C26_RollbackTriesEveryPath ==
    pc = "h_rolled_back" =>
        /\ \A p \in Range(args.files) \cap DOMAIN args.fs0 :
              IF p \in result.failing
              THEN Exists(fs, p) /\ fs[p] = args.fs0[p]
              ELSE ~Exists(fs, p)
        /\ \A p \in DOMAIN args.fs0 \ Range(args.files) : Exists(fs, p) /\ fs[p] = args.fs0[p]
        /\ DOMAIN fs \subseteq DOMAIN args.fs0
        /\ result.failures = {p \in Range(args.files) : Exists(args.fs0, p) /\ Exists(fs, p)}

C26_Witness ==
    /\ pc = "h_rolled_back" /\ Len(args.files) = 3 /\ DOMAIN args.fs0 = HelperPaths
    /\ result.failures = {args.files[1]}
    /\ ~Exists(fs, args.files[2]) /\ ~Exists(fs, args.files[3])

----------------------------------------------------------------------------
(* C27 *)

\* C27: restore_from_backups copies back every record whose backup still
\* exists, over whatever is at the original path, and the restoration of one
\* record does not depend on that of another: every record whose own copy
\* does not fail is restored.
C27_RestoreEachRecord ==
    pc = "h_restored" =>
        \A i \in 1..Len(result.pairs) :
            (Exists(result.before, result.pairs[i][2]) /\ i \notin result.failing) =>
                /\ Exists(fs, result.pairs[i][1])
                /\ fs[result.pairs[i][1]] = result.before[result.pairs[i][2]]

----------------------------------------------------------------------------
(* C28 *)

\* C28: for any list of paths, backup_files_to_temp, the removal of any of
\* the backed-up originals and restore_from_backups, none of them failing,
\* leave every path of the list that existed before the backup in place with
\* its original content; a path that did not exist gets no record and is not
\* created.
C28_BackupRestoreRoundTrip ==
    (pc = "h_restored" /\ result.ok) =>
        \A p \in Range(args.files) :
            IF Exists(args.fs0, p)
            THEN Exists(fs, p) /\ fs[p] = args.fs0[p]
            ELSE /\ ~Exists(fs, p)
                 /\ \A i \in 1..Len(result.pairs) : result.pairs[i][1] # p

----------------------------------------------------------------------------
(* C31 *)

\* The lower-cased stems of the content items directory d held at the start.
ItemStems(d) == {ToLowercase(FileStem(FileName(p))) : p \in FilesIn(Fs0, d)}

\* The asset named n belongs to the item with stem t among the items of d: its
\* lower-cased name starts with t and ends with a recognized extension, and no
\* item of d with a longer stem has a stem the name starts with.
BelongsTo(n, t, d) ==
    /\ StartsWith(ToLowercase(n), t)
    /\ EndsWithExt(ToLowercase(n))
    /\ \A u \in ItemStems(d) : StartsWith(ToLowercase(n), u) => Len(u) <= Len(t)

\* C31: a successful Delete of the item with stem s leaves in place, with its
\* content, every asset of the collection images directory that belongs to
\* another item t of the collection, also when s is a prefix of t; a
\* successful Publish of the item with stem s has copied no asset that belongs
\* to another item of the working area.
C31_OtherItemsAssetsUntouched ==
    (Done /\ outcome = "success") =>
        LET s == ToLowercase(FileStem(FileName(selected)))
        IN  /\ op = "delete" =>
                 \A t \in ItemStems("published") \ {s} :
                    \A p \in FilesIn(Fs0, "pimg") :
                       (IsFile(Fs0, p) /\ BelongsTo(FileName(p), t, "published"))
                          => (Exists(fs, p) /\ fs[p] = Fs0[p])
            /\ op = "publish" =>
                 \A t \in ItemStems("ready") \ {s} :
                    \A p \in FilesIn(Fs0, "wimg") :
                       (IsFile(Fs0, p) /\ BelongsTo(FileName(p), t, "ready"))
                          => Join("pimg", FileName(p)) \notin Range(created)

----------------------------------------------------------------------------
(* C32 *)

\* C32: in every state of a Publish call, whatever its outcome, every file the
\* working files directory and the working images directory held at the start
\* (the selected source among them) exists with the content it had then.
C32_PublishKeepsWorkingArea ==
    op = "publish" =>
        /\ Exists(fs, selected) /\ fs[selected] = Fs0[selected]
        /\ KeptFromStart("ready")
        /\ KeptFromStart("wimg")

\* A Publish that copied the markdown and an asset, met a failure of the git
\* steps and rolled both copies back.
C32_Witness ==
    /\ Done /\ op = "publish" /\ outcome = "error" /\ hist.exit = "git_failed"
    /\ Len(created) >= 2
    /\ \A p \in Range(created) : ~Exists(fs, p)
    /\ FilesIn(fs, "wimg") # {}

----------------------------------------------------------------------------
(* Publish, then Delete of the item just published *)

RoundTripInit ==
    /\ Init
    /\ op = "publish"

\* main.rs:301-311  a second invocation of the program, with the command
\* Delete and the item the Publish before it put into the collection selected:
\* delete_selected starts with fresh locals on the file system Publish left.
\* args keeps the file system the Publish started from.
ThenDelete ==
    /\ pc = "done" /\ op = "publish" /\ outcome = "success"
    /\ op' = "delete"
    /\ selected' = DestMd
    /\ pc' = "d_start"
    /\ created' = <<>>
    /\ images' = <<>>
    /\ to_delete' = <<>>
    /\ backups' = <<>>
    /\ idx' = 0
    /\ outcome' = "none"
    /\ err' = NoErr
    /\ hist' = InitHist(fs, dirs)
    /\ args' = [before |-> Fs0]
    /\ UNCHANGED <<cfg, dirs, fs, result, repo>>

\* The working copy is present after a successful Publish, so the
\* working-area backup steps of Delete (publish.rs:132-176) are never entered.
RoundTripNext ==
    \/ PubStart
    \/ PubListImages
    \/ PubCopyImage
    \/ PubConfirm
    \/ PubGit
    \/ ThenDelete
    \/ DelStart
    \/ DelGather
    \/ DelConfirm
    \/ DelRemove
    \/ DelGit

RoundTripSpec == RoundTripInit /\ [][RoundTripNext]_vars

----------------------------------------------------------------------------
(* C33 *)

\* A successful Delete that followed a successful Publish of the same item.
RoundTripDone == op = "delete" /\ Done /\ outcome = "success"

\* Directory d holds the files of S, each with the content it had before the Publish.
HoldsFromBefore(d, S) ==
    /\ FilesIn(fs, d) = S
    /\ \A p \in S : fs[p] = args.before[p]

\* The round trip as stated: both collection directories hold what they held
\* before the Publish.
C33_Original ==
    RoundTripDone =>
        /\ HoldsFromBefore("published", FilesIn(args.before, "published"))
        /\ HoldsFromBefore("pimg", FilesIn(args.before, "pimg"))

\* C33: a successful Publish of an item followed by a successful Delete of the
\* same item leaves the collection files directory equal to what it was before
\* the Publish, and the collection images directory equal to what it was
\* before the Publish less the assets in it that matched the item's stem
\* before the Publish.
C33_RoundTrip ==
    RoundTripDone =>
        /\ HoldsFromBefore("published", FilesIn(args.before, "published"))
        /\ HoldsFromBefore("pimg", FilesIn(args.before, "pimg") \ AssetOf(args.before, "pimg"))

\* A round trip in which Publish copied an asset, Delete removed it, and an
\* asset that was in the collection before the Publish is still there.
C33_Witness ==
    /\ RoundTripDone
    /\ \E p \in Range(to_delete) : Dir(p) = "pimg" /\ ~Exists(args.before, p)
    /\ FilesIn(fs, "pimg") # {}

----------------------------------------------------------------------------
(* C37 *)

\* C37: after backup_files_to_temp has returned its records, the records of
\* different originals name different backup files, and every record's backup
\* file holds the content of its own original, also when two originals in
\* different directories have the same file name.
C37_OwnBackupFile ==
    pc = "h_backed_up" =>
        /\ \A i, j \in 1..Len(result.pairs) :
              result.pairs[i][1] # result.pairs[j][1] =>
                  result.pairs[i][2] # result.pairs[j][2]
        /\ \A i \in 1..Len(result.pairs) :
              /\ Exists(fs, result.pairs[i][2])
              /\ fs[result.pairs[i][2]] = result.before[result.pairs[i][1]]

----------------------------------------------------------------------------
(* config.rs: load_config *)

\* A configuration has at most this many [[collection]] tables.
MaxCollections == 2

\* ui.rs:12, config.rs:148  the extensions of content files
SupportedExts == {"md", "yaml", "yml", "json", "csv"}

\* Path::extension: what follows the last "." of the name, nothing when the
\* name has no "." or only a leading one.
Extension(name) ==
    LET dots == {i \in 1..Len(name) : name[i] = "."}
        last == CHOOSE i \in dots : \A j \in dots : j <= i
    IN  IF dots = {} \/ dots = {1} \/ last = Len(name) THEN "none" ELSE name[Len(name)]

\* The strings the configuration file gives as names and directories.
CfgNames == {"", "blog", "docs"}

CfgFiles == {" ", "site/content"}

CfgImages == {"none", "/srv/img"}

CfgCollections ==
    [name : CfgNames, files : CfgFiles, images : CfgImages]

\* str::trim
Trim(s) == IF s = " " THEN "" ELSE s

\* config.rs:56-64  resolve_dir: an absolute path as it is, a relative one
\* under the home directory
ResolveDir(s) ==
    CASE s = "drafts"       -> "/home/u/drafts"
      [] s = "drafts/img"   -> "/home/u/drafts/img"
      [] s = "site/content" -> "/home/u/site/content"
      [] s = " "            -> "/home/u/ "
      [] s = ""             -> "/home/u/"
      [] OTHER              -> s

\* as_ref().map(resolve_dir) of an optional directory
ResolveOpt(s) == IF s = "none" THEN "none" ELSE ResolveDir(s)

CfgDirs == {"/home/u/drafts", "/home/u/drafts/img", "/home/u/site/content", "/srv/img"}

\* config.rs:146  dir_has_supported_files(dir): dir holds a regular file with
\* a supported extension
DirHasSupportedFiles(f, d) ==
    \E p \in FilesIn(f, d) : IsFile(f, p) /\ Extension(FileName(p)) \in SupportedExts

\* No name counts as seen before.
IsDuplicate_Never(seen, name) == FALSE

\* config.rs:171  !seen_names.insert(name)
IsDuplicate(seen, name) == name \in seen

CfgErr(k, a) == [kind |-> k, about |-> a]

\* config.rs:166-207  the loop over the collections: the errors pushed, the
\* paths pushed, the names seen.
RECURSIVE ValidateCollections(_, _)
ValidateCollections(cols, D) ==
    IF cols = <<>> THEN [errs |-> <<>>, paths |-> <<>>, seen |-> {}]
    ELSE LET n   == Len(cols)
             r   == ValidateCollections(SubSeq(cols, 1, n - 1), D)
             col == cols[n]
             files_path  == ResolveDir(col.files)
             images_path == ResolveOpt(col.images)
             e1 == IF files_path \notin D
                   THEN <<CfgErr("collection_files_not_dir", files_path)>> ELSE <<>>
             e2 == IF images_path # "none" /\ images_path \notin D
                   THEN <<CfgErr("collection_images_not_dir", images_path)>> ELSE <<>>
         IN  IF Trim(col.name) = ""
             THEN [r EXCEPT !.errs = Append(@, CfgErr("empty_name", col.name))]
             ELSE IF IsDuplicate(r.seen, col.name)
             THEN [r EXCEPT !.errs = Append(@, CfgErr("duplicate_name", col.name))]
             ELSE IF Trim(col.files) = ""
             THEN [r EXCEPT !.errs = Append(@, CfgErr("empty_files", col.name)),
                            !.seen = @ \cup {col.name}]
             ELSE [errs  |-> r.errs \o e1 \o e2,
                   paths |-> Append(r.paths, [name |-> col.name, files |-> files_path,
                                              images |-> images_path]),
                   seen  |-> r.seen \cup {col.name}]

NoAppPaths == [working_files |-> "none", working_images |-> "none", collections |-> <<>>]

\* config.rs:130-217  load_config(false) on the parsed configuration c, with
\* the directories D existing; supported is what dir_has_supported_files
\* gave (false also when it failed).
LoadConfig(c, D, supported) ==
    IF Trim(c.working.files) = ""
    THEN [ok |-> FALSE, errs |-> <<CfgErr("working_files_empty", "")>>, paths |-> NoAppPaths]
    ELSE LET working_files_path  == ResolveDir(c.working.files)
             working_images_path == ResolveOpt(c.working.images)
             e1 == IF working_files_path \notin D
                   THEN <<CfgErr("working_files_not_dir", working_files_path)>>
                   ELSE IF ~supported
                   THEN <<CfgErr("no_supported_files", working_files_path)>>
                   ELSE <<>>
             e2 == IF working_images_path # "none" /\ working_images_path \notin D
                   THEN <<CfgErr("working_images_not_dir", working_images_path)>> ELSE <<>>
             r    == ValidateCollections(c.collection, D)
             errs == e1 \o e2 \o r.errs
         IN  IF errs # <<>>
             THEN [ok |-> FALSE, errs |-> errs, paths |-> NoAppPaths]
             ELSE [ok |-> TRUE, errs |-> <<>>,
                   paths |-> [working_files |-> working_files_path,
                              working_images |-> working_images_path,
                              collections |-> r.paths]]

\* The configuration file's content once parsed, and the directories and the
\* working files that exist.
ConfigInit ==
    /\ op = "load_config"
    /\ EngineIdle
    /\ dirs \in SUBSET CfgDirs
    /\ \E E \in {{}, {<<"/home/u/drafts", <<"a", ".", "md">>>>},
                     {<<"/home/u/drafts", <<"a", ".", "txt">>>>}} :
          /\ (E # {} => "/home/u/drafts" \in dirs)
          /\ fs = [p \in E |-> p]
    /\ \E wf \in {"", "drafts"}, wi \in {"none", "drafts/img"}, n \in 0..MaxCollections :
       \E cols \in [1..n -> CfgCollections] :
          args = [working |-> [files |-> wf, images |-> wi], collection |-> cols]
    /\ result = NoResult
    /\ repo = NoRepo
    /\ pc = "c_start"

\* config.rs:118-128  the file is missing, unreadable or not valid TOML.
ConfigUnreadable ==
    /\ pc = "c_start"
    /\ result' = [ok |-> FALSE, errs |-> <<CfgErr("config_unreadable", "")>>,
                  paths |-> NoAppPaths]
    /\ pc' = "c_failed"
    /\ UNCHANGED <<op, dirs, fs, args, repo>>
    /\ UNCHANGED engineVars

\* config.rs:130-217  validation of the parsed configuration.
ConfigLoad ==
    /\ pc = "c_start"
    /\ \E readOk \in BOOLEAN :
          result' = LoadConfig(args, dirs,
                        readOk /\ DirHasSupportedFiles(fs, ResolveDir(args.working.files)))
    /\ pc' = "c_done"
    /\ UNCHANGED <<op, dirs, fs, args, repo>>
    /\ UNCHANGED engineVars

ConfigNext ==
    \/ ConfigUnreadable
    \/ ConfigLoad

ConfigSpec == ConfigInit /\ [][ConfigNext]_vars

----------------------------------------------------------------------------
(* C36 *)

\* What the claim requires of a configuration and the directories that exist.
ConfigValid ==
    LET cols == args.collection
    IN  /\ \A i \in 1..Len(cols) : cols[i].name # ""
        /\ \A i, j \in 1..Len(cols) : i # j => cols[i].name # cols[j].name
        /\ ResolveDir(args.working.files) \in dirs
        /\ args.working.images # "none" => ResolveDir(args.working.images) \in dirs
        /\ \A i \in 1..Len(cols) :
              /\ ResolveDir(cols[i].files) \in dirs
              /\ cols[i].images # "none" => ResolveDir(cols[i].images) \in dirs

\* C36: configuration loading returns resolved paths only if every collection
\* has a non-empty name, the names are pairwise different, and the working
\* files directory, every collection files directory and every configured
\* images directory exist as directories; otherwise it returns an error with
\* at least one message and no paths.
C36_PathsOnlyIfValid ==
    pc \in {"c_done", "c_failed"} =>
        /\ result.ok => ConfigValid
        /\ ~result.ok => (result.errs # <<>> /\ result.paths = NoAppPaths)

\* A configuration with two collections, images configured, that loads.
C36_Witness ==
    /\ pc = "c_done" /\ result.ok
    /\ Len(result.paths.collections) = 2
    /\ result.paths.working_images # "none"
    /\ \E i \in 1..2 : result.paths.collections[i].images # "none"

----------------------------------------------------------------------------
(* ui.rs: list_blogs, then publish_selected on the file selected *)

\* The names in the working files directory when the selector lists it.
SelectorNames == ContentNames \cup {<<"n", ".", "txt">>, <<".", "md">>}

\* No file is taken to be in the collection.
IsExcluded_Never(f, ex, name) == FALSE

\* ui.rs:24-26  exclude_dir.files.join(file_name).exists()
IsExcluded(f, ex, name) == ex # "none" /\ Exists(f, Join(ex, name))

\* ui.rs:14-32  the files list_blogs(dir, exclude_dir) offers
ListBlogsOffered(f, d, ex) ==
    IF d \notin dirs THEN {}
    ELSE {p \in FilesIn(f, d) :
            /\ IsFile(f, p)
            /\ Extension(FileName(p)) \in SupportedExts
            /\ ~IsExcluded(f, ex, FileName(p))}

\* Every entry of a directory is a regular file or a directory.
EntryKinds(d, N) == [{Join(d, n) : n \in N} -> {"file", "dir"}]

SelectorFs(kr, kp, W, I) ==
    LET assets == {Join("wimg", n) : n \in W} \cup {Join("pimg", n) : n \in I}
    IN  [p \in DOMAIN kr \cup DOMAIN kp \cup assets |->
            IF p \in DOMAIN kr /\ kr[p] = "dir" THEN SubDir
            ELSE IF p \in DOMAIN kp /\ kp[p] = "dir" THEN SubDir
            ELSE p]

\* main.rs:301-305  the command Publish: the selector lists the working files
\* directory with the collection as exclude_dir.
SelectorInit ==
    /\ op = "publish"
    /\ cfg \in SUBSET ImageDirs
    /\ \E D \in SUBSET cfg : dirs = {"ready", "published"} \cup D
    /\ \E R \in SUBSET SelectorNames, P \in SUBSET ContentNames,
          W \in SUBSET {<<"a", ".", "png">>}, I \in SUBSET {<<"a", ".", "png">>} :
       \E kr \in EntryKinds("ready", R), kp \in EntryKinds("published", P) :
          /\ "wimg" \notin dirs => W = {}
          /\ "pimg" \notin dirs => I = {}
          /\ fs = SelectorFs(kr, kp, W, I)
    /\ selected = NoPath
    /\ pc = "l_start"
    /\ created = <<>>
    /\ images = <<>>
    /\ to_delete = <<>>
    /\ backups = <<>>
    /\ idx = 0
    /\ outcome = "none"
    /\ err = NoErr
    /\ hist = InitHist(fs, dirs)
    /\ args = [dir |-> "ready", exclude |-> "published"]
    /\ result = [offered |-> {}]
    /\ repo = NoRepo

\* ui.rs:10-37  the listing: read_dir may fail; with nothing to offer the
\* selector returns None and no Publish is started.
ListBlogs ==
    /\ pc = "l_start"
    /\ \/ /\ args.dir \in dirs
          /\ Finish("error", MkErr("io", NoPath, "io", {}), "list_dir_failed")
          /\ UNCHANGED result
       \/ LET offered == ListBlogsOffered(fs, args.dir, args.exclude)
          IN  /\ result' = [offered |-> offered]
              /\ IF offered = {}
                 THEN Finish("none", NoErr, "nothing_offered")
                 ELSE /\ pc' = "l_select"
                      /\ UNCHANGED <<outcome, err, hist>>
    /\ UNCHANGED <<op, selected, cfg, dirs, fs, created, images, to_delete, backups, idx,
                   args, repo>>

\* ui.rs:49-73, main.rs:303-304  the prompt: an error, a cancel (None), or one
\* of the offered files, on which publish_selected is called.
SelectFile ==
    /\ pc = "l_select"
    /\ \/ /\ Finish("error", MkErr("prompt", NoPath, "prompt", {}), "select_failed")
          /\ UNCHANGED selected
       \/ /\ Finish("none", NoErr, "select_cancelled")
          /\ UNCHANGED selected
       \/ /\ selected' \in result.offered
          /\ pc' = "p_start"
          /\ UNCHANGED <<outcome, err, hist>>
    /\ UNCHANGED <<op, cfg, dirs, fs, created, images, to_delete, backups, idx,
                   args, result, repo>>

SelectorNext ==
    \/ ListBlogs
    \/ SelectFile
    \/ PubStart
    \/ PubListImages
    \/ PubCopyImage
    \/ PubConfirm
    \/ PubGit

SelectorSpec == SelectorInit /\ [][SelectorNext]_vars

----------------------------------------------------------------------------
(* C35 *)

\* C35: every file the selector offers for Publish is a regular file of the
\* working files directory with a supported extension whose name does not
\* exist in the collection's files directory; and a Publish started from the
\* selected file never ends at the destination-markdown conflict check.
C35_SelectorOffersPublishable ==
    /\ \A p \in result.offered :
          /\ Dir(p) = "ready"
          /\ IsFile(Fs0, p)
          /\ Extension(FileName(p)) \in SupportedExts
          /\ ~Exists(Fs0, Join("published", FileName(p)))
    /\ hist.exit # "dest_exists"

\* A Publish that succeeded on an offered file while another supported file
\* of the working area was held back because the collection has its name.
C35_Witness ==
    /\ Done /\ outcome = "success" /\ selected \in result.offered
    /\ \E q \in FilesIn(Fs0, "ready") :
          /\ IsFile(Fs0, q)
          /\ Extension(FileName(q)) \in SupportedExts
          /\ Exists(Fs0, Join("published", FileName(q)))
          /\ q \notin result.offered

----------------------------------------------------------------------------
(* Publish and Delete with every step eventually taken *)

\* The assets in the image directories at the start of these runs: one that
\* matches both item stems and one that matches the shorter stem only.
LiveAssets == {<<"a", ".", "png">>, <<"A", "x", ".", "JPG">>}

LiveInit ==
    /\ Init
    /\ \A p \in DOMAIN fs : Dir(p) \in ImageDirs => FileName(p) \in LiveAssets

\* publish_selected and delete_selected are straight-line code with bounded
\* loops: a step that can be taken is taken; each prompt is answered and the
\* runner returns.
LiveSpec == LiveInit /\ [][Next]_vars /\ WF_vars(Next)

----------------------------------------------------------------------------
(* C34 *)

Outcomes == {"success", "aborted", "error"}

\* C34: every Publish and every Delete call ends; it has an outcome, one of
\* success, aborted and error, exactly when it has ended, and nothing happens
\* after that; and no copy, removal, backup or restore of a file is attempted
\* a second time in the call.
C34_TerminatesWithoutRetry ==
    /\ <>Done
    /\ [](Done <=> outcome \in Outcomes)
    /\ [](outcome \in Outcomes \cup {"none"})
    /\ [][~Done]_vars
    /\ [](~hist.retry)

\* A Delete that backed up and removed two files, met a failure of the git
\* steps, restored both and cleaned up.
C34_Witness ==
    /\ Done /\ op = "delete" /\ outcome = "error" /\ hist.exit = "git_failed"
    /\ Len(to_delete) = 2
    /\ Att("backup", Range(to_delete)) \subseteq hist.tried
    /\ Att("remove", Range(to_delete)) \subseteq hist.tried
    /\ Att("restore", Range(to_delete)) \subseteq hist.tried
    /\ Att("remove", {backups[i][2] : i \in 1..Len(backups)}) \subseteq hist.tried

====
